---- MODULE Spec2Model ----
(***************************************************************************)
(* Model of the asynchronous analysis and caching pipeline of the          *)
(* stocktwits-clone repository: the validators of lib/anthropic.ts and     *)
(* lib/gemini.ts, the post-quality adapter, the analyze-post job, the      *)
(* news-sentiment refresh job of lib/inngest/functions.ts and the          *)
(* GET /api/stocks/[symbol]/news-sentiment route, then the headline        *)
(* adapter, the community sentiment route, the trending computation, the   *)
(* retention cleanup, the write sets of the jobs, concurrent upserts of    *)
(* one cache row, POST /api/posts and the paging of comments.              *)
(*                                                                         *)
(* Several specifications share the variables; each one drives its own     *)
(* variables and leaves the others at their idle value.                    *)
(***************************************************************************)
EXTENDS Integers, Sequences, FiniteSets, TLC

VARIABLES norm, score, adapter, post, inv, job, route, now, cache, run, resp,
          fh, comm, trend, pend, valid, store, newsrow,
          wset, race, parse, create, page

vars == <<norm, score, adapter, post, inv, job, route, now, cache, run, resp,
          fh, comm, trend, pend, valid, store, newsrow,
          wset, race, parse, create, page>>

analyzeVars == <<post, inv, job, route>>

newsVars == <<now, cache, run, resp>>

libVars == <<fh, comm, trend, pend, valid, store, newsrow,
            wset, race, parse, create, page>>

coreVars == <<norm, score, adapter, analyzeVars, newsVars>>

(***************************************************************************)
(* JavaScript numbers.  A value is a record [k, v]: k = "fin" is a finite  *)
(* number whose magnitude is v (in the unit stated by the operator that    *)
(* reads it), "nan" is NaN, "pinf" / "ninf" are +Infinity / -Infinity and  *)
(* "other" is any value whose typeof is not "number" (string, null,        *)
(* undefined, object).                                                     *)
(***************************************************************************)
Fin(n) == [k |-> "fin", v |-> n]
NaN == [k |-> "nan", v |-> 0]
PosInf == [k |-> "pinf", v |-> 0]
NegInf == [k |-> "ninf", v |-> 0]
NotANumber == [k |-> "other", v |-> 0]
Absent == [k |-> "null", v |-> 0]

IsTypeofNumber(x) == x.k \in {"fin", "nan", "pinf", "ninf"}

\* a + b on JavaScript numbers
JSAdd(a, b) ==
  IF a.k = "nan" \/ b.k = "nan" THEN NaN
  ELSE IF a.k = "fin" /\ b.k = "fin" THEN Fin(a.v + b.v)
  ELSE IF a.k = "fin" THEN b
  ELSE IF b.k = "fin" THEN a
  ELSE IF a.k = b.k THEN a
  ELSE NaN

\* x > 0 on JavaScript numbers (false for NaN)
JSGreaterThanZero(x) == (x.k = "fin" /\ x.v > 0) \/ x.k = "pinf"

(***************************************************************************)
(* IEEE-754 double arithmetic for Math.round((count / total) * 100) with   *)
(* count > 0 and total > 0.  A positive double is [z, m]: m is a tuple of  *)
(* five limbs, most significant first, every limb but the first in base    *)
(* 2^13, and the value is                                                  *)
(* (m[1] * 2^52 + m[2] * 2^39 + m[3] * 2^26 + m[4] * 2^13 + m[5])          *)
(* * 2^(-52-z); z is negative where the value is 2 or more.                *)
(***************************************************************************)
LimbBase == 2^13

\* l + a, the carry running from the last limb to the first
AddLow(l, a) ==
  LET s5 == l[5] + a
      s4 == l[4] + (s5 \div LimbBase)
      s3 == l[3] + (s4 \div LimbBase)
      s2 == l[2] + (s3 \div LimbBase)
  IN  << l[1] + (s2 \div LimbBase), s2 % LimbBase, s3 % LimbBase,
         s4 % LimbBase, s5 % LimbBase >>

\* l * f, exactly, the carry running from the last limb to the first
TimesLimbs(l, f) ==
  LET p5 == l[5] * f
      p4 == l[4] * f + (p5 \div LimbBase)
      p3 == l[3] * f + (p4 \div LimbBase)
      p2 == l[2] * f + (p3 \div LimbBase)
  IN  << l[1] * f + (p2 \div LimbBase), p2 % LimbBase, p3 % LimbBase,
         p4 % LimbBase, p5 % LimbBase >>

\* The least z with count * 2^z >= total
RECURSIVE LeadingShift(_, _, _)
LeadingShift(count, total, z) ==
  IF count * 2^z >= total THEN z ELSE LeadingShift(count, total, z + 1)

\* The least e with count < total * 2^(e + 1)
RECURSIVE TrailingShift(_, _, _)
TrailingShift(count, total, e) ==
  IF count < total * 2^(e + 1) THEN e ELSE TrailingShift(count, total, e + 1)

\* count / total: 53 significant bits by long division, round to nearest, ties
\* to even
DoubleQuotient(count, total) ==
  LET z == LeadingShift(count, total, 0)
      e == TrailingShift(count, total, 0)
      den == total * 2^e
      r0 == count * 2^z - den
      d1 == (r0 * LimbBase) \div den
      r1 == (r0 * LimbBase) % den
      d2 == (r1 * LimbBase) \div den
      r2 == (r1 * LimbBase) % den
      d3 == (r2 * LimbBase) \div den
      r3 == (r2 * LimbBase) % den
      d4 == (r3 * LimbBase) \div den
      r4 == (r3 * LimbBase) % den
      up == 2 * r4 > den \/ (2 * r4 = den /\ d4 % 2 = 1)
  IN  [z |-> z - e, m |-> AddLow(<<1, d1, d2, d3, d4>>, IF up THEN 1 ELSE 0)]

\* q * 100: the exact product, rounded to 53 significant bits, ties to even
DoubleTimes100(q) ==
  LET p == TimesLimbs(q.m, 100)
      k == IF p[1] >= 256 THEN 8 ELSE IF p[1] >= 128 THEN 7 ELSE 6
      low == p[5] % 2^k
      kept == p[5] - low
      up == low > 2^(k - 1) \/ (low = 2^(k - 1) /\ (kept \div 2^k) % 2 = 1)
  IN  [z |-> q.z,
       m |-> AddLow(<<p[1], p[2], p[3], p[4], kept>>, IF up THEN 2^k ELSE 0)]

\* Math.floor of a double below 2^31
DoubleFloor(x) ==
  IF x.z > 0 THEN x.m[1] \div 2^x.z ELSE TimesLimbs(x.m, 2^(0 - x.z))[1]

\* The fraction x - Math.floor(x) against one half: -1 below it, 0 equal to
\* it, 1 above it
FractionAgainstHalf(x) ==
  IF x.z > 0
  THEN LET low == x.m[1] % 2^x.z
           half == 2^(x.z - 1)
       IN  IF low < half THEN 0 - 1
           ELSE IF low = half /\ x.m[2] = 0 /\ x.m[3] = 0 /\ x.m[4] = 0 /\ x.m[5] = 0
                THEN 0
           ELSE 1
  ELSE LET s == TimesLimbs(x.m, 2^(0 - x.z))
       IN  IF 2 * s[2] < LimbBase THEN 0 - 1
           ELSE IF 2 * s[2] = LimbBase /\ s[3] = 0 /\ s[4] = 0 /\ s[5] = 0 THEN 0
           ELSE 1

\* Math.round(x) of a positive double: the nearest integer, a tie going up
MathRound(x) == DoubleFloor(x) + (IF FractionAgainstHalf(x) >= 0 THEN 1 ELSE 0)

\* Math.round(-x) of a positive double x: the nearest integer, a tie going up
\* (towards zero)
MathRoundMinus(x) == 0 - (DoubleFloor(x) + (IF FractionAgainstHalf(x) > 0 THEN 1 ELSE 0))

\* Math.round((count / total) * 100) for integers count and total > 0
RoundedPercentOf(count, total) ==
  IF count = 0 THEN 0
  ELSE IF count > 0 THEN MathRound(DoubleTimes100(DoubleQuotient(count, total)))
  ELSE MathRoundMinus(DoubleTimes100(DoubleQuotient(0 - count, total)))

(***************************************************************************)
(* Percentage normalization of analyzeNewsSentiment.  The raw percentages  *)
(* of the parsed reply are finite numbers in units of one half (v = 67     *)
(* is 33.5), so that Math.round has something to round.                    *)
(***************************************************************************)
MaxNegRawHalves == 4
MaxRawHalves == 46

\* typeof x === "number" ? Math.round(x) : 0   (x in halves, result in units)
RoundPercentOrZero(x) ==
  IF ~IsTypeofNumber(x) THEN Fin(0)
  ELSE IF x.k = "fin" THEN Fin((x.v + 1) \div 2)
  ELSE x

\* Math.round((x / total) * 100), used only when total > 0
ScaleToPercent(x, total) ==
  IF x.k = "fin" /\ total.k = "fin" THEN Fin(RoundedPercentOf(x.v, total.v))
  ELSE IF x.k = "fin" THEN Fin(0)
  ELSE NaN

\* 100 - a - b
HundredMinus(a, b) ==
  IF a.k = "fin" /\ b.k = "fin" THEN Fin(100 - a.v - b.v) ELSE NaN

NormalizePercentages(parsed) ==
  LET bullishPercent == RoundPercentOrZero(parsed.bullishPercent)
      bearishPercent == RoundPercentOrZero(parsed.bearishPercent)
      neutralPercent == RoundPercentOrZero(parsed.neutralPercent)
      total == JSAdd(JSAdd(bullishPercent, bearishPercent), neutralPercent)
      normalizedBullish == IF JSGreaterThanZero(total)
                           THEN ScaleToPercent(bullishPercent, total) ELSE Fin(34)
      normalizedBearish == IF JSGreaterThanZero(total)
                           THEN ScaleToPercent(bearishPercent, total) ELSE Fin(33)
      normalizedNeutral == HundredMinus(normalizedBullish, normalizedBearish)
  IN  [bullishPercent |-> normalizedBullish,
       bearishPercent |-> normalizedBearish,
       neutralPercent |-> normalizedNeutral]

RawPercents ==
  {Fin(h) : h \in (-MaxNegRawHalves)..MaxRawHalves} \cup {NaN, PosInf, NegInf, NotANumber}

ParsedTriples ==
  [bullishPercent : RawPercents, bearishPercent : RawPercents, neutralPercent : RawPercents]

NoTriple == [bullishPercent |-> Absent, bearishPercent |-> Absent, neutralPercent |-> Absent]

NormIdle == [pc |-> "idle", parsed |-> NoTriple, result |-> NoTriple]

(***************************************************************************)
(* validateQualityScore (lib/anthropic.ts and lib/gemini.ts, same body).   *)
(* Finite scores are in units of one tenth (v = 14 is 1.4).                *)
(***************************************************************************)
MaxNegScoreTenths == 25
MaxScoreTenths == 25

\* Math.min(1, x), x in tenths
MathMinOne(x) ==
  IF x.k = "fin" THEN Fin(IF x.v < 10 THEN x.v ELSE 10)
  ELSE IF x.k = "pinf" THEN Fin(10)
  ELSE x

\* Math.max(0, x), x in tenths
MathMaxZero(x) ==
  IF x.k = "fin" THEN Fin(IF x.v > 0 THEN x.v ELSE 0)
  ELSE IF x.k = "ninf" THEN Fin(0)
  ELSE x

validateQualityScore(s) ==
  IF ~IsTypeofNumber(s) \/ s.k = "nan" THEN Absent
  ELSE MathMaxZero(MathMinOne(s))

RawScores ==
  {Fin(t) : t \in (-MaxNegScoreTenths)..MaxScoreTenths} \cup {NaN, PosInf, NegInf, NotANumber}

ScoreIdle == [pc |-> "idle", input |-> Absent, result |-> Absent]

(***************************************************************************)
(* JavaScript strings are sequences of UTF-16 code units.  A code unit is  *)
(* written as the character itself when it is a printable ASCII character  *)
(* other than the double quote, the backslash and the grave accent, as one  *)
(* of "\n", "\t", "\r", "\f", and by its code point otherwise ("U+00A0");   *)
(* a code point above U+FFFF is its two surrogates.  A value of a string   *)
(* field is [t |-> "string", s |-> units]; [t |-> "other"] is any value    *)
(* whose typeof is not "string"; NullStr is the absent result.             *)
(***************************************************************************)
StrVal(chars) == [t |-> "string", s |-> chars]
NotAString == [t |-> "other", s |-> <<>>]
NullStr == [t |-> "null", s |-> <<>>]

UpperLetters == <<"A","B","C","D","E","F","G","H","I","J","K","L","M",
                  "N","O","P","Q","R","S","T","U","V","W","X","Y","Z">>
LowerLetters == <<"a","b","c","d","e","f","g","h","i","j","k","l","m",
                  "n","o","p","q","r","s","t","u","v","w","x","y","z">>
\* The characters trim() strips: the white space and line terminator code
\* points of ECMAScript.  Those a string of this module cannot hold are
\* written by their code point.
Whitespace ==
  {" ", "\n", "\t", "\r", "\f", "U+000B", "U+00A0", "U+FEFF", "U+1680",
   "U+2000", "U+2001", "U+2002", "U+2003", "U+2004", "U+2005", "U+2006",
   "U+2007", "U+2008", "U+2009", "U+200A", "U+2028", "U+2029", "U+202F",
   "U+205F", "U+3000"}

(***************************************************************************)
(* Case conversion.  toLowerCase and toUpperCase map a string code point   *)
(* by code point with the full case mappings of the Unicode Character      *)
(* Database (UnicodeData.txt and the unconditional, language-independent   *)
(* entries of SpecialCasing.txt, here of Unicode 17.0), so one code point  *)
(* can become several; the one mapping that depends on the context is the  *)
(* capital sigma, lower-cased to the final sigma at the end of a word.  A  *)
(* code point is named by its code units written one after the other.      *)
(***************************************************************************)
\* Rows of 3: a code point whose lower case differs from it, then its lower
\* case in 2 code units, "" where it has fewer
LowerCaseRows ==
  <<"A", "a", "", "B", "b", "", "C", "c", "", "D", "d", "", "E", "e", "",
    "F", "f", "", "G", "g", "", "H", "h", "", "I", "i", "", "J", "j", "",
    "K", "k", "", "L", "l", "", "M", "m", "", "N", "n", "", "O", "o", "",
    "P", "p", "", "Q", "q", "", "R", "r", "", "S", "s", "", "T", "t", "",
    "U", "u", "", "V", "v", "", "W", "w", "", "X", "x", "", "Y", "y", "",
    "Z", "z", "", "U+00C0", "U+00E0", "", "U+00C1", "U+00E1", "",
    "U+00C2", "U+00E2", "", "U+00C3", "U+00E3", "", "U+00C4", "U+00E4", "",
    "U+00C5", "U+00E5", "", "U+00C6", "U+00E6", "", "U+00C7", "U+00E7", "",
    "U+00C8", "U+00E8", "", "U+00C9", "U+00E9", "", "U+00CA", "U+00EA", "",
    "U+00CB", "U+00EB", "", "U+00CC", "U+00EC", "", "U+00CD", "U+00ED", "",
    "U+00CE", "U+00EE", "", "U+00CF", "U+00EF", "", "U+00D0", "U+00F0", "",
    "U+00D1", "U+00F1", "", "U+00D2", "U+00F2", "", "U+00D3", "U+00F3", "",
    "U+00D4", "U+00F4", "", "U+00D5", "U+00F5", "", "U+00D6", "U+00F6", "",
    "U+00D8", "U+00F8", "", "U+00D9", "U+00F9", "", "U+00DA", "U+00FA", "",
    "U+00DB", "U+00FB", "", "U+00DC", "U+00FC", "", "U+00DD", "U+00FD", "",
    "U+00DE", "U+00FE", "", "U+0100", "U+0101", "", "U+0102", "U+0103", "",
    "U+0104", "U+0105", "", "U+0106", "U+0107", "", "U+0108", "U+0109", "",
    "U+010A", "U+010B", "", "U+010C", "U+010D", "", "U+010E", "U+010F", "",
    "U+0110", "U+0111", "", "U+0112", "U+0113", "", "U+0114", "U+0115", "",
    "U+0116", "U+0117", "", "U+0118", "U+0119", "", "U+011A", "U+011B", "",
    "U+011C", "U+011D", "", "U+011E", "U+011F", "", "U+0120", "U+0121", "",
    "U+0122", "U+0123", "", "U+0124", "U+0125", "", "U+0126", "U+0127", "",
    "U+0128", "U+0129", "", "U+012A", "U+012B", "", "U+012C", "U+012D", "",
    "U+012E", "U+012F", "", "U+0130", "i", "U+0307", "U+0132", "U+0133", "",
    "U+0134", "U+0135", "", "U+0136", "U+0137", "", "U+0139", "U+013A", "",
    "U+013B", "U+013C", "", "U+013D", "U+013E", "", "U+013F", "U+0140", "",
    "U+0141", "U+0142", "", "U+0143", "U+0144", "", "U+0145", "U+0146", "",
    "U+0147", "U+0148", "", "U+014A", "U+014B", "", "U+014C", "U+014D", "",
    "U+014E", "U+014F", "", "U+0150", "U+0151", "", "U+0152", "U+0153", "",
    "U+0154", "U+0155", "", "U+0156", "U+0157", "", "U+0158", "U+0159", "",
    "U+015A", "U+015B", "", "U+015C", "U+015D", "", "U+015E", "U+015F", "",
    "U+0160", "U+0161", "", "U+0162", "U+0163", "", "U+0164", "U+0165", "",
    "U+0166", "U+0167", "", "U+0168", "U+0169", "", "U+016A", "U+016B", "",
    "U+016C", "U+016D", "", "U+016E", "U+016F", "", "U+0170", "U+0171", "",
    "U+0172", "U+0173", "", "U+0174", "U+0175", "", "U+0176", "U+0177", "",
    "U+0178", "U+00FF", "", "U+0179", "U+017A", "", "U+017B", "U+017C", "",
    "U+017D", "U+017E", "", "U+0181", "U+0253", "", "U+0182", "U+0183", "",
    "U+0184", "U+0185", "", "U+0186", "U+0254", "", "U+0187", "U+0188", "",
    "U+0189", "U+0256", "", "U+018A", "U+0257", "", "U+018B", "U+018C", "",
    "U+018E", "U+01DD", "", "U+018F", "U+0259", "", "U+0190", "U+025B", "",
    "U+0191", "U+0192", "", "U+0193", "U+0260", "", "U+0194", "U+0263", "",
    "U+0196", "U+0269", "", "U+0197", "U+0268", "", "U+0198", "U+0199", "",
    "U+019C", "U+026F", "", "U+019D", "U+0272", "", "U+019F", "U+0275", "",
    "U+01A0", "U+01A1", "", "U+01A2", "U+01A3", "", "U+01A4", "U+01A5", "",
    "U+01A6", "U+0280", "", "U+01A7", "U+01A8", "", "U+01A9", "U+0283", "",
    "U+01AC", "U+01AD", "", "U+01AE", "U+0288", "", "U+01AF", "U+01B0", "",
    "U+01B1", "U+028A", "", "U+01B2", "U+028B", "", "U+01B3", "U+01B4", "",
    "U+01B5", "U+01B6", "", "U+01B7", "U+0292", "", "U+01B8", "U+01B9", "",
    "U+01BC", "U+01BD", "", "U+01C4", "U+01C6", "", "U+01C5", "U+01C6", "",
    "U+01C7", "U+01C9", "", "U+01C8", "U+01C9", "", "U+01CA", "U+01CC", "",
    "U+01CB", "U+01CC", "", "U+01CD", "U+01CE", "", "U+01CF", "U+01D0", "",
    "U+01D1", "U+01D2", "", "U+01D3", "U+01D4", "", "U+01D5", "U+01D6", "",
    "U+01D7", "U+01D8", "", "U+01D9", "U+01DA", "", "U+01DB", "U+01DC", "",
    "U+01DE", "U+01DF", "", "U+01E0", "U+01E1", "", "U+01E2", "U+01E3", "",
    "U+01E4", "U+01E5", "", "U+01E6", "U+01E7", "", "U+01E8", "U+01E9", "",
    "U+01EA", "U+01EB", "", "U+01EC", "U+01ED", "", "U+01EE", "U+01EF", "",
    "U+01F1", "U+01F3", "", "U+01F2", "U+01F3", "", "U+01F4", "U+01F5", "",
    "U+01F6", "U+0195", "", "U+01F7", "U+01BF", "", "U+01F8", "U+01F9", "",
    "U+01FA", "U+01FB", "", "U+01FC", "U+01FD", "", "U+01FE", "U+01FF", "",
    "U+0200", "U+0201", "", "U+0202", "U+0203", "", "U+0204", "U+0205", "",
    "U+0206", "U+0207", "", "U+0208", "U+0209", "", "U+020A", "U+020B", "",
    "U+020C", "U+020D", "", "U+020E", "U+020F", "", "U+0210", "U+0211", "",
    "U+0212", "U+0213", "", "U+0214", "U+0215", "", "U+0216", "U+0217", "",
    "U+0218", "U+0219", "", "U+021A", "U+021B", "", "U+021C", "U+021D", "",
    "U+021E", "U+021F", "", "U+0220", "U+019E", "", "U+0222", "U+0223", "",
    "U+0224", "U+0225", "", "U+0226", "U+0227", "", "U+0228", "U+0229", "",
    "U+022A", "U+022B", "", "U+022C", "U+022D", "", "U+022E", "U+022F", "",
    "U+0230", "U+0231", "", "U+0232", "U+0233", "", "U+023A", "U+2C65", "",
    "U+023B", "U+023C", "", "U+023D", "U+019A", "", "U+023E", "U+2C66", "",
    "U+0241", "U+0242", "", "U+0243", "U+0180", "", "U+0244", "U+0289", "",
    "U+0245", "U+028C", "", "U+0246", "U+0247", "", "U+0248", "U+0249", "",
    "U+024A", "U+024B", "", "U+024C", "U+024D", "", "U+024E", "U+024F", "",
    "U+0370", "U+0371", "", "U+0372", "U+0373", "", "U+0376", "U+0377", "",
    "U+037F", "U+03F3", "", "U+0386", "U+03AC", "", "U+0388", "U+03AD", "",
    "U+0389", "U+03AE", "", "U+038A", "U+03AF", "", "U+038C", "U+03CC", "",
    "U+038E", "U+03CD", "", "U+038F", "U+03CE", "", "U+0391", "U+03B1", "",
    "U+0392", "U+03B2", "", "U+0393", "U+03B3", "", "U+0394", "U+03B4", "",
    "U+0395", "U+03B5", "", "U+0396", "U+03B6", "", "U+0397", "U+03B7", "",
    "U+0398", "U+03B8", "", "U+0399", "U+03B9", "", "U+039A", "U+03BA", "",
    "U+039B", "U+03BB", "", "U+039C", "U+03BC", "", "U+039D", "U+03BD", "",
    "U+039E", "U+03BE", "", "U+039F", "U+03BF", "", "U+03A0", "U+03C0", "",
    "U+03A1", "U+03C1", "", "U+03A3", "U+03C3", "", "U+03A4", "U+03C4", "",
    "U+03A5", "U+03C5", "", "U+03A6", "U+03C6", "", "U+03A7", "U+03C7", "",
    "U+03A8", "U+03C8", "", "U+03A9", "U+03C9", "", "U+03AA", "U+03CA", "",
    "U+03AB", "U+03CB", "", "U+03CF", "U+03D7", "", "U+03D8", "U+03D9", "",
    "U+03DA", "U+03DB", "", "U+03DC", "U+03DD", "", "U+03DE", "U+03DF", "",
    "U+03E0", "U+03E1", "", "U+03E2", "U+03E3", "", "U+03E4", "U+03E5", "",
    "U+03E6", "U+03E7", "", "U+03E8", "U+03E9", "", "U+03EA", "U+03EB", "",
    "U+03EC", "U+03ED", "", "U+03EE", "U+03EF", "", "U+03F4", "U+03B8", "",
    "U+03F7", "U+03F8", "", "U+03F9", "U+03F2", "", "U+03FA", "U+03FB", "",
    "U+03FD", "U+037B", "", "U+03FE", "U+037C", "", "U+03FF", "U+037D", "",
    "U+0400", "U+0450", "", "U+0401", "U+0451", "", "U+0402", "U+0452", "",
    "U+0403", "U+0453", "", "U+0404", "U+0454", "", "U+0405", "U+0455", "",
    "U+0406", "U+0456", "", "U+0407", "U+0457", "", "U+0408", "U+0458", "",
    "U+0409", "U+0459", "", "U+040A", "U+045A", "", "U+040B", "U+045B", "",
    "U+040C", "U+045C", "", "U+040D", "U+045D", "", "U+040E", "U+045E", "",
    "U+040F", "U+045F", "", "U+0410", "U+0430", "", "U+0411", "U+0431", "",
    "U+0412", "U+0432", "", "U+0413", "U+0433", "", "U+0414", "U+0434", "",
    "U+0415", "U+0435", "", "U+0416", "U+0436", "", "U+0417", "U+0437", "",
    "U+0418", "U+0438", "", "U+0419", "U+0439", "", "U+041A", "U+043A", "",
    "U+041B", "U+043B", "", "U+041C", "U+043C", "", "U+041D", "U+043D", "",
    "U+041E", "U+043E", "", "U+041F", "U+043F", "", "U+0420", "U+0440", "",
    "U+0421", "U+0441", "", "U+0422", "U+0442", "", "U+0423", "U+0443", "",
    "U+0424", "U+0444", "", "U+0425", "U+0445", "", "U+0426", "U+0446", "",
    "U+0427", "U+0447", "", "U+0428", "U+0448", "", "U+0429", "U+0449", "",
    "U+042A", "U+044A", "", "U+042B", "U+044B", "", "U+042C", "U+044C", "",
    "U+042D", "U+044D", "", "U+042E", "U+044E", "", "U+042F", "U+044F", "",
    "U+0460", "U+0461", "", "U+0462", "U+0463", "", "U+0464", "U+0465", "",
    "U+0466", "U+0467", "", "U+0468", "U+0469", "", "U+046A", "U+046B", "",
    "U+046C", "U+046D", "", "U+046E", "U+046F", "", "U+0470", "U+0471", "",
    "U+0472", "U+0473", "", "U+0474", "U+0475", "", "U+0476", "U+0477", "",
    "U+0478", "U+0479", "", "U+047A", "U+047B", "", "U+047C", "U+047D", "",
    "U+047E", "U+047F", "", "U+0480", "U+0481", "", "U+048A", "U+048B", "",
    "U+048C", "U+048D", "", "U+048E", "U+048F", "", "U+0490", "U+0491", "",
    "U+0492", "U+0493", "", "U+0494", "U+0495", "", "U+0496", "U+0497", "",
    "U+0498", "U+0499", "", "U+049A", "U+049B", "", "U+049C", "U+049D", "",
    "U+049E", "U+049F", "", "U+04A0", "U+04A1", "", "U+04A2", "U+04A3", "",
    "U+04A4", "U+04A5", "", "U+04A6", "U+04A7", "", "U+04A8", "U+04A9", "",
    "U+04AA", "U+04AB", "", "U+04AC", "U+04AD", "", "U+04AE", "U+04AF", "",
    "U+04B0", "U+04B1", "", "U+04B2", "U+04B3", "", "U+04B4", "U+04B5", "",
    "U+04B6", "U+04B7", "", "U+04B8", "U+04B9", "", "U+04BA", "U+04BB", "",
    "U+04BC", "U+04BD", "", "U+04BE", "U+04BF", "", "U+04C0", "U+04CF", "",
    "U+04C1", "U+04C2", "", "U+04C3", "U+04C4", "", "U+04C5", "U+04C6", "",
    "U+04C7", "U+04C8", "", "U+04C9", "U+04CA", "", "U+04CB", "U+04CC", "",
    "U+04CD", "U+04CE", "", "U+04D0", "U+04D1", "", "U+04D2", "U+04D3", "",
    "U+04D4", "U+04D5", "", "U+04D6", "U+04D7", "", "U+04D8", "U+04D9", "",
    "U+04DA", "U+04DB", "", "U+04DC", "U+04DD", "", "U+04DE", "U+04DF", "",
    "U+04E0", "U+04E1", "", "U+04E2", "U+04E3", "", "U+04E4", "U+04E5", "",
    "U+04E6", "U+04E7", "", "U+04E8", "U+04E9", "", "U+04EA", "U+04EB", "",
    "U+04EC", "U+04ED", "", "U+04EE", "U+04EF", "", "U+04F0", "U+04F1", "",
    "U+04F2", "U+04F3", "", "U+04F4", "U+04F5", "", "U+04F6", "U+04F7", "",
    "U+04F8", "U+04F9", "", "U+04FA", "U+04FB", "", "U+04FC", "U+04FD", "",
    "U+04FE", "U+04FF", "", "U+0500", "U+0501", "", "U+0502", "U+0503", "",
    "U+0504", "U+0505", "", "U+0506", "U+0507", "", "U+0508", "U+0509", "",
    "U+050A", "U+050B", "", "U+050C", "U+050D", "", "U+050E", "U+050F", "",
    "U+0510", "U+0511", "", "U+0512", "U+0513", "", "U+0514", "U+0515", "",
    "U+0516", "U+0517", "", "U+0518", "U+0519", "", "U+051A", "U+051B", "",
    "U+051C", "U+051D", "", "U+051E", "U+051F", "", "U+0520", "U+0521", "",
    "U+0522", "U+0523", "", "U+0524", "U+0525", "", "U+0526", "U+0527", "",
    "U+0528", "U+0529", "", "U+052A", "U+052B", "", "U+052C", "U+052D", "",
    "U+052E", "U+052F", "", "U+0531", "U+0561", "", "U+0532", "U+0562", "",
    "U+0533", "U+0563", "", "U+0534", "U+0564", "", "U+0535", "U+0565", "",
    "U+0536", "U+0566", "", "U+0537", "U+0567", "", "U+0538", "U+0568", "",
    "U+0539", "U+0569", "", "U+053A", "U+056A", "", "U+053B", "U+056B", "",
    "U+053C", "U+056C", "", "U+053D", "U+056D", "", "U+053E", "U+056E", "",
    "U+053F", "U+056F", "", "U+0540", "U+0570", "", "U+0541", "U+0571", "",
    "U+0542", "U+0572", "", "U+0543", "U+0573", "", "U+0544", "U+0574", "",
    "U+0545", "U+0575", "", "U+0546", "U+0576", "", "U+0547", "U+0577", "",
    "U+0548", "U+0578", "", "U+0549", "U+0579", "", "U+054A", "U+057A", "",
    "U+054B", "U+057B", "", "U+054C", "U+057C", "", "U+054D", "U+057D", "",
    "U+054E", "U+057E", "", "U+054F", "U+057F", "", "U+0550", "U+0580", "",
    "U+0551", "U+0581", "", "U+0552", "U+0582", "", "U+0553", "U+0583", "",
    "U+0554", "U+0584", "", "U+0555", "U+0585", "", "U+0556", "U+0586", "",
    "U+10A0", "U+2D00", "", "U+10A1", "U+2D01", "", "U+10A2", "U+2D02", "",
    "U+10A3", "U+2D03", "", "U+10A4", "U+2D04", "", "U+10A5", "U+2D05", "",
    "U+10A6", "U+2D06", "", "U+10A7", "U+2D07", "", "U+10A8", "U+2D08", "",
    "U+10A9", "U+2D09", "", "U+10AA", "U+2D0A", "", "U+10AB", "U+2D0B", "",
    "U+10AC", "U+2D0C", "", "U+10AD", "U+2D0D", "", "U+10AE", "U+2D0E", "",
    "U+10AF", "U+2D0F", "", "U+10B0", "U+2D10", "", "U+10B1", "U+2D11", "",
    "U+10B2", "U+2D12", "", "U+10B3", "U+2D13", "", "U+10B4", "U+2D14", "",
    "U+10B5", "U+2D15", "", "U+10B6", "U+2D16", "", "U+10B7", "U+2D17", "",
    "U+10B8", "U+2D18", "", "U+10B9", "U+2D19", "", "U+10BA", "U+2D1A", "",
    "U+10BB", "U+2D1B", "", "U+10BC", "U+2D1C", "", "U+10BD", "U+2D1D", "",
    "U+10BE", "U+2D1E", "", "U+10BF", "U+2D1F", "", "U+10C0", "U+2D20", "",
    "U+10C1", "U+2D21", "", "U+10C2", "U+2D22", "", "U+10C3", "U+2D23", "",
    "U+10C4", "U+2D24", "", "U+10C5", "U+2D25", "", "U+10C7", "U+2D27", "",
    "U+10CD", "U+2D2D", "", "U+13A0", "U+AB70", "", "U+13A1", "U+AB71", "",
    "U+13A2", "U+AB72", "", "U+13A3", "U+AB73", "", "U+13A4", "U+AB74", "",
    "U+13A5", "U+AB75", "", "U+13A6", "U+AB76", "", "U+13A7", "U+AB77", "",
    "U+13A8", "U+AB78", "", "U+13A9", "U+AB79", "", "U+13AA", "U+AB7A", "",
    "U+13AB", "U+AB7B", "", "U+13AC", "U+AB7C", "", "U+13AD", "U+AB7D", "",
    "U+13AE", "U+AB7E", "", "U+13AF", "U+AB7F", "", "U+13B0", "U+AB80", "",
    "U+13B1", "U+AB81", "", "U+13B2", "U+AB82", "", "U+13B3", "U+AB83", "",
    "U+13B4", "U+AB84", "", "U+13B5", "U+AB85", "", "U+13B6", "U+AB86", "",
    "U+13B7", "U+AB87", "", "U+13B8", "U+AB88", "", "U+13B9", "U+AB89", "",
    "U+13BA", "U+AB8A", "", "U+13BB", "U+AB8B", "", "U+13BC", "U+AB8C", "",
    "U+13BD", "U+AB8D", "", "U+13BE", "U+AB8E", "", "U+13BF", "U+AB8F", "",
    "U+13C0", "U+AB90", "", "U+13C1", "U+AB91", "", "U+13C2", "U+AB92", "",
    "U+13C3", "U+AB93", "", "U+13C4", "U+AB94", "", "U+13C5", "U+AB95", "",
    "U+13C6", "U+AB96", "", "U+13C7", "U+AB97", "", "U+13C8", "U+AB98", "",
    "U+13C9", "U+AB99", "", "U+13CA", "U+AB9A", "", "U+13CB", "U+AB9B", "",
    "U+13CC", "U+AB9C", "", "U+13CD", "U+AB9D", "", "U+13CE", "U+AB9E", "",
    "U+13CF", "U+AB9F", "", "U+13D0", "U+ABA0", "", "U+13D1", "U+ABA1", "",
    "U+13D2", "U+ABA2", "", "U+13D3", "U+ABA3", "", "U+13D4", "U+ABA4", "",
    "U+13D5", "U+ABA5", "", "U+13D6", "U+ABA6", "", "U+13D7", "U+ABA7", "",
    "U+13D8", "U+ABA8", "", "U+13D9", "U+ABA9", "", "U+13DA", "U+ABAA", "",
    "U+13DB", "U+ABAB", "", "U+13DC", "U+ABAC", "", "U+13DD", "U+ABAD", "",
    "U+13DE", "U+ABAE", "", "U+13DF", "U+ABAF", "", "U+13E0", "U+ABB0", "",
    "U+13E1", "U+ABB1", "", "U+13E2", "U+ABB2", "", "U+13E3", "U+ABB3", "",
    "U+13E4", "U+ABB4", "", "U+13E5", "U+ABB5", "", "U+13E6", "U+ABB6", "",
    "U+13E7", "U+ABB7", "", "U+13E8", "U+ABB8", "", "U+13E9", "U+ABB9", "",
    "U+13EA", "U+ABBA", "", "U+13EB", "U+ABBB", "", "U+13EC", "U+ABBC", "",
    "U+13ED", "U+ABBD", "", "U+13EE", "U+ABBE", "", "U+13EF", "U+ABBF", "",
    "U+13F0", "U+13F8", "", "U+13F1", "U+13F9", "", "U+13F2", "U+13FA", "",
    "U+13F3", "U+13FB", "", "U+13F4", "U+13FC", "", "U+13F5", "U+13FD", "",
    "U+1C89", "U+1C8A", "", "U+1C90", "U+10D0", "", "U+1C91", "U+10D1", "",
    "U+1C92", "U+10D2", "", "U+1C93", "U+10D3", "", "U+1C94", "U+10D4", "",
    "U+1C95", "U+10D5", "", "U+1C96", "U+10D6", "", "U+1C97", "U+10D7", "",
    "U+1C98", "U+10D8", "", "U+1C99", "U+10D9", "", "U+1C9A", "U+10DA", "",
    "U+1C9B", "U+10DB", "", "U+1C9C", "U+10DC", "", "U+1C9D", "U+10DD", "",
    "U+1C9E", "U+10DE", "", "U+1C9F", "U+10DF", "", "U+1CA0", "U+10E0", "",
    "U+1CA1", "U+10E1", "", "U+1CA2", "U+10E2", "", "U+1CA3", "U+10E3", "",
    "U+1CA4", "U+10E4", "", "U+1CA5", "U+10E5", "", "U+1CA6", "U+10E6", "",
    "U+1CA7", "U+10E7", "", "U+1CA8", "U+10E8", "", "U+1CA9", "U+10E9", "",
    "U+1CAA", "U+10EA", "", "U+1CAB", "U+10EB", "", "U+1CAC", "U+10EC", "",
    "U+1CAD", "U+10ED", "", "U+1CAE", "U+10EE", "", "U+1CAF", "U+10EF", "",
    "U+1CB0", "U+10F0", "", "U+1CB1", "U+10F1", "", "U+1CB2", "U+10F2", "",
    "U+1CB3", "U+10F3", "", "U+1CB4", "U+10F4", "", "U+1CB5", "U+10F5", "",
    "U+1CB6", "U+10F6", "", "U+1CB7", "U+10F7", "", "U+1CB8", "U+10F8", "",
    "U+1CB9", "U+10F9", "", "U+1CBA", "U+10FA", "", "U+1CBD", "U+10FD", "",
    "U+1CBE", "U+10FE", "", "U+1CBF", "U+10FF", "", "U+1E00", "U+1E01", "",
    "U+1E02", "U+1E03", "", "U+1E04", "U+1E05", "", "U+1E06", "U+1E07", "",
    "U+1E08", "U+1E09", "", "U+1E0A", "U+1E0B", "", "U+1E0C", "U+1E0D", "",
    "U+1E0E", "U+1E0F", "", "U+1E10", "U+1E11", "", "U+1E12", "U+1E13", "",
    "U+1E14", "U+1E15", "", "U+1E16", "U+1E17", "", "U+1E18", "U+1E19", "",
    "U+1E1A", "U+1E1B", "", "U+1E1C", "U+1E1D", "", "U+1E1E", "U+1E1F", "",
    "U+1E20", "U+1E21", "", "U+1E22", "U+1E23", "", "U+1E24", "U+1E25", "",
    "U+1E26", "U+1E27", "", "U+1E28", "U+1E29", "", "U+1E2A", "U+1E2B", "",
    "U+1E2C", "U+1E2D", "", "U+1E2E", "U+1E2F", "", "U+1E30", "U+1E31", "",
    "U+1E32", "U+1E33", "", "U+1E34", "U+1E35", "", "U+1E36", "U+1E37", "",
    "U+1E38", "U+1E39", "", "U+1E3A", "U+1E3B", "", "U+1E3C", "U+1E3D", "",
    "U+1E3E", "U+1E3F", "", "U+1E40", "U+1E41", "", "U+1E42", "U+1E43", "",
    "U+1E44", "U+1E45", "", "U+1E46", "U+1E47", "", "U+1E48", "U+1E49", "",
    "U+1E4A", "U+1E4B", "", "U+1E4C", "U+1E4D", "", "U+1E4E", "U+1E4F", "",
    "U+1E50", "U+1E51", "", "U+1E52", "U+1E53", "", "U+1E54", "U+1E55", "",
    "U+1E56", "U+1E57", "", "U+1E58", "U+1E59", "", "U+1E5A", "U+1E5B", "",
    "U+1E5C", "U+1E5D", "", "U+1E5E", "U+1E5F", "", "U+1E60", "U+1E61", "",
    "U+1E62", "U+1E63", "", "U+1E64", "U+1E65", "", "U+1E66", "U+1E67", "",
    "U+1E68", "U+1E69", "", "U+1E6A", "U+1E6B", "", "U+1E6C", "U+1E6D", "",
    "U+1E6E", "U+1E6F", "", "U+1E70", "U+1E71", "", "U+1E72", "U+1E73", "",
    "U+1E74", "U+1E75", "", "U+1E76", "U+1E77", "", "U+1E78", "U+1E79", "",
    "U+1E7A", "U+1E7B", "", "U+1E7C", "U+1E7D", "", "U+1E7E", "U+1E7F", "",
    "U+1E80", "U+1E81", "", "U+1E82", "U+1E83", "", "U+1E84", "U+1E85", "",
    "U+1E86", "U+1E87", "", "U+1E88", "U+1E89", "", "U+1E8A", "U+1E8B", "",
    "U+1E8C", "U+1E8D", "", "U+1E8E", "U+1E8F", "", "U+1E90", "U+1E91", "",
    "U+1E92", "U+1E93", "", "U+1E94", "U+1E95", "", "U+1E9E", "U+00DF", "",
    "U+1EA0", "U+1EA1", "", "U+1EA2", "U+1EA3", "", "U+1EA4", "U+1EA5", "",
    "U+1EA6", "U+1EA7", "", "U+1EA8", "U+1EA9", "", "U+1EAA", "U+1EAB", "",
    "U+1EAC", "U+1EAD", "", "U+1EAE", "U+1EAF", "", "U+1EB0", "U+1EB1", "",
    "U+1EB2", "U+1EB3", "", "U+1EB4", "U+1EB5", "", "U+1EB6", "U+1EB7", "",
    "U+1EB8", "U+1EB9", "", "U+1EBA", "U+1EBB", "", "U+1EBC", "U+1EBD", "",
    "U+1EBE", "U+1EBF", "", "U+1EC0", "U+1EC1", "", "U+1EC2", "U+1EC3", "",
    "U+1EC4", "U+1EC5", "", "U+1EC6", "U+1EC7", "", "U+1EC8", "U+1EC9", "",
    "U+1ECA", "U+1ECB", "", "U+1ECC", "U+1ECD", "", "U+1ECE", "U+1ECF", "",
    "U+1ED0", "U+1ED1", "", "U+1ED2", "U+1ED3", "", "U+1ED4", "U+1ED5", "",
    "U+1ED6", "U+1ED7", "", "U+1ED8", "U+1ED9", "", "U+1EDA", "U+1EDB", "",
    "U+1EDC", "U+1EDD", "", "U+1EDE", "U+1EDF", "", "U+1EE0", "U+1EE1", "",
    "U+1EE2", "U+1EE3", "", "U+1EE4", "U+1EE5", "", "U+1EE6", "U+1EE7", "",
    "U+1EE8", "U+1EE9", "", "U+1EEA", "U+1EEB", "", "U+1EEC", "U+1EED", "",
    "U+1EEE", "U+1EEF", "", "U+1EF0", "U+1EF1", "", "U+1EF2", "U+1EF3", "",
    "U+1EF4", "U+1EF5", "", "U+1EF6", "U+1EF7", "", "U+1EF8", "U+1EF9", "",
    "U+1EFA", "U+1EFB", "", "U+1EFC", "U+1EFD", "", "U+1EFE", "U+1EFF", "",
    "U+1F08", "U+1F00", "", "U+1F09", "U+1F01", "", "U+1F0A", "U+1F02", "",
    "U+1F0B", "U+1F03", "", "U+1F0C", "U+1F04", "", "U+1F0D", "U+1F05", "",
    "U+1F0E", "U+1F06", "", "U+1F0F", "U+1F07", "", "U+1F18", "U+1F10", "",
    "U+1F19", "U+1F11", "", "U+1F1A", "U+1F12", "", "U+1F1B", "U+1F13", "",
    "U+1F1C", "U+1F14", "", "U+1F1D", "U+1F15", "", "U+1F28", "U+1F20", "",
    "U+1F29", "U+1F21", "", "U+1F2A", "U+1F22", "", "U+1F2B", "U+1F23", "",
    "U+1F2C", "U+1F24", "", "U+1F2D", "U+1F25", "", "U+1F2E", "U+1F26", "",
    "U+1F2F", "U+1F27", "", "U+1F38", "U+1F30", "", "U+1F39", "U+1F31", "",
    "U+1F3A", "U+1F32", "", "U+1F3B", "U+1F33", "", "U+1F3C", "U+1F34", "",
    "U+1F3D", "U+1F35", "", "U+1F3E", "U+1F36", "", "U+1F3F", "U+1F37", "",
    "U+1F48", "U+1F40", "", "U+1F49", "U+1F41", "", "U+1F4A", "U+1F42", "",
    "U+1F4B", "U+1F43", "", "U+1F4C", "U+1F44", "", "U+1F4D", "U+1F45", "",
    "U+1F59", "U+1F51", "", "U+1F5B", "U+1F53", "", "U+1F5D", "U+1F55", "",
    "U+1F5F", "U+1F57", "", "U+1F68", "U+1F60", "", "U+1F69", "U+1F61", "",
    "U+1F6A", "U+1F62", "", "U+1F6B", "U+1F63", "", "U+1F6C", "U+1F64", "",
    "U+1F6D", "U+1F65", "", "U+1F6E", "U+1F66", "", "U+1F6F", "U+1F67", "",
    "U+1F88", "U+1F80", "", "U+1F89", "U+1F81", "", "U+1F8A", "U+1F82", "",
    "U+1F8B", "U+1F83", "", "U+1F8C", "U+1F84", "", "U+1F8D", "U+1F85", "",
    "U+1F8E", "U+1F86", "", "U+1F8F", "U+1F87", "", "U+1F98", "U+1F90", "",
    "U+1F99", "U+1F91", "", "U+1F9A", "U+1F92", "", "U+1F9B", "U+1F93", "",
    "U+1F9C", "U+1F94", "", "U+1F9D", "U+1F95", "", "U+1F9E", "U+1F96", "",
    "U+1F9F", "U+1F97", "", "U+1FA8", "U+1FA0", "", "U+1FA9", "U+1FA1", "",
    "U+1FAA", "U+1FA2", "", "U+1FAB", "U+1FA3", "", "U+1FAC", "U+1FA4", "",
    "U+1FAD", "U+1FA5", "", "U+1FAE", "U+1FA6", "", "U+1FAF", "U+1FA7", "",
    "U+1FB8", "U+1FB0", "", "U+1FB9", "U+1FB1", "", "U+1FBA", "U+1F70", "",
    "U+1FBB", "U+1F71", "", "U+1FBC", "U+1FB3", "", "U+1FC8", "U+1F72", "",
    "U+1FC9", "U+1F73", "", "U+1FCA", "U+1F74", "", "U+1FCB", "U+1F75", "",
    "U+1FCC", "U+1FC3", "", "U+1FD8", "U+1FD0", "", "U+1FD9", "U+1FD1", "",
    "U+1FDA", "U+1F76", "", "U+1FDB", "U+1F77", "", "U+1FE8", "U+1FE0", "",
    "U+1FE9", "U+1FE1", "", "U+1FEA", "U+1F7A", "", "U+1FEB", "U+1F7B", "",
    "U+1FEC", "U+1FE5", "", "U+1FF8", "U+1F78", "", "U+1FF9", "U+1F79", "",
    "U+1FFA", "U+1F7C", "", "U+1FFB", "U+1F7D", "", "U+1FFC", "U+1FF3", "",
    "U+2126", "U+03C9", "", "U+212A", "k", "", "U+212B", "U+00E5", "",
    "U+2132", "U+214E", "", "U+2160", "U+2170", "", "U+2161", "U+2171", "",
    "U+2162", "U+2172", "", "U+2163", "U+2173", "", "U+2164", "U+2174", "",
    "U+2165", "U+2175", "", "U+2166", "U+2176", "", "U+2167", "U+2177", "",
    "U+2168", "U+2178", "", "U+2169", "U+2179", "", "U+216A", "U+217A", "",
    "U+216B", "U+217B", "", "U+216C", "U+217C", "", "U+216D", "U+217D", "",
    "U+216E", "U+217E", "", "U+216F", "U+217F", "", "U+2183", "U+2184", "",
    "U+24B6", "U+24D0", "", "U+24B7", "U+24D1", "", "U+24B8", "U+24D2", "",
    "U+24B9", "U+24D3", "", "U+24BA", "U+24D4", "", "U+24BB", "U+24D5", "",
    "U+24BC", "U+24D6", "", "U+24BD", "U+24D7", "", "U+24BE", "U+24D8", "",
    "U+24BF", "U+24D9", "", "U+24C0", "U+24DA", "", "U+24C1", "U+24DB", "",
    "U+24C2", "U+24DC", "", "U+24C3", "U+24DD", "", "U+24C4", "U+24DE", "",
    "U+24C5", "U+24DF", "", "U+24C6", "U+24E0", "", "U+24C7", "U+24E1", "",
    "U+24C8", "U+24E2", "", "U+24C9", "U+24E3", "", "U+24CA", "U+24E4", "",
    "U+24CB", "U+24E5", "", "U+24CC", "U+24E6", "", "U+24CD", "U+24E7", "",
    "U+24CE", "U+24E8", "", "U+24CF", "U+24E9", "", "U+2C00", "U+2C30", "",
    "U+2C01", "U+2C31", "", "U+2C02", "U+2C32", "", "U+2C03", "U+2C33", "",
    "U+2C04", "U+2C34", "", "U+2C05", "U+2C35", "", "U+2C06", "U+2C36", "",
    "U+2C07", "U+2C37", "", "U+2C08", "U+2C38", "", "U+2C09", "U+2C39", "",
    "U+2C0A", "U+2C3A", "", "U+2C0B", "U+2C3B", "", "U+2C0C", "U+2C3C", "",
    "U+2C0D", "U+2C3D", "", "U+2C0E", "U+2C3E", "", "U+2C0F", "U+2C3F", "",
    "U+2C10", "U+2C40", "", "U+2C11", "U+2C41", "", "U+2C12", "U+2C42", "",
    "U+2C13", "U+2C43", "", "U+2C14", "U+2C44", "", "U+2C15", "U+2C45", "",
    "U+2C16", "U+2C46", "", "U+2C17", "U+2C47", "", "U+2C18", "U+2C48", "",
    "U+2C19", "U+2C49", "", "U+2C1A", "U+2C4A", "", "U+2C1B", "U+2C4B", "",
    "U+2C1C", "U+2C4C", "", "U+2C1D", "U+2C4D", "", "U+2C1E", "U+2C4E", "",
    "U+2C1F", "U+2C4F", "", "U+2C20", "U+2C50", "", "U+2C21", "U+2C51", "",
    "U+2C22", "U+2C52", "", "U+2C23", "U+2C53", "", "U+2C24", "U+2C54", "",
    "U+2C25", "U+2C55", "", "U+2C26", "U+2C56", "", "U+2C27", "U+2C57", "",
    "U+2C28", "U+2C58", "", "U+2C29", "U+2C59", "", "U+2C2A", "U+2C5A", "",
    "U+2C2B", "U+2C5B", "", "U+2C2C", "U+2C5C", "", "U+2C2D", "U+2C5D", "",
    "U+2C2E", "U+2C5E", "", "U+2C2F", "U+2C5F", "", "U+2C60", "U+2C61", "",
    "U+2C62", "U+026B", "", "U+2C63", "U+1D7D", "", "U+2C64", "U+027D", "",
    "U+2C67", "U+2C68", "", "U+2C69", "U+2C6A", "", "U+2C6B", "U+2C6C", "",
    "U+2C6D", "U+0251", "", "U+2C6E", "U+0271", "", "U+2C6F", "U+0250", "",
    "U+2C70", "U+0252", "", "U+2C72", "U+2C73", "", "U+2C75", "U+2C76", "",
    "U+2C7E", "U+023F", "", "U+2C7F", "U+0240", "", "U+2C80", "U+2C81", "",
    "U+2C82", "U+2C83", "", "U+2C84", "U+2C85", "", "U+2C86", "U+2C87", "",
    "U+2C88", "U+2C89", "", "U+2C8A", "U+2C8B", "", "U+2C8C", "U+2C8D", "",
    "U+2C8E", "U+2C8F", "", "U+2C90", "U+2C91", "", "U+2C92", "U+2C93", "",
    "U+2C94", "U+2C95", "", "U+2C96", "U+2C97", "", "U+2C98", "U+2C99", "",
    "U+2C9A", "U+2C9B", "", "U+2C9C", "U+2C9D", "", "U+2C9E", "U+2C9F", "",
    "U+2CA0", "U+2CA1", "", "U+2CA2", "U+2CA3", "", "U+2CA4", "U+2CA5", "",
    "U+2CA6", "U+2CA7", "", "U+2CA8", "U+2CA9", "", "U+2CAA", "U+2CAB", "",
    "U+2CAC", "U+2CAD", "", "U+2CAE", "U+2CAF", "", "U+2CB0", "U+2CB1", "",
    "U+2CB2", "U+2CB3", "", "U+2CB4", "U+2CB5", "", "U+2CB6", "U+2CB7", "",
    "U+2CB8", "U+2CB9", "", "U+2CBA", "U+2CBB", "", "U+2CBC", "U+2CBD", "",
    "U+2CBE", "U+2CBF", "", "U+2CC0", "U+2CC1", "", "U+2CC2", "U+2CC3", "",
    "U+2CC4", "U+2CC5", "", "U+2CC6", "U+2CC7", "", "U+2CC8", "U+2CC9", "",
    "U+2CCA", "U+2CCB", "", "U+2CCC", "U+2CCD", "", "U+2CCE", "U+2CCF", "",
    "U+2CD0", "U+2CD1", "", "U+2CD2", "U+2CD3", "", "U+2CD4", "U+2CD5", "",
    "U+2CD6", "U+2CD7", "", "U+2CD8", "U+2CD9", "", "U+2CDA", "U+2CDB", "",
    "U+2CDC", "U+2CDD", "", "U+2CDE", "U+2CDF", "", "U+2CE0", "U+2CE1", "",
    "U+2CE2", "U+2CE3", "", "U+2CEB", "U+2CEC", "", "U+2CED", "U+2CEE", "",
    "U+2CF2", "U+2CF3", "", "U+A640", "U+A641", "", "U+A642", "U+A643", "",
    "U+A644", "U+A645", "", "U+A646", "U+A647", "", "U+A648", "U+A649", "",
    "U+A64A", "U+A64B", "", "U+A64C", "U+A64D", "", "U+A64E", "U+A64F", "",
    "U+A650", "U+A651", "", "U+A652", "U+A653", "", "U+A654", "U+A655", "",
    "U+A656", "U+A657", "", "U+A658", "U+A659", "", "U+A65A", "U+A65B", "",
    "U+A65C", "U+A65D", "", "U+A65E", "U+A65F", "", "U+A660", "U+A661", "",
    "U+A662", "U+A663", "", "U+A664", "U+A665", "", "U+A666", "U+A667", "",
    "U+A668", "U+A669", "", "U+A66A", "U+A66B", "", "U+A66C", "U+A66D", "",
    "U+A680", "U+A681", "", "U+A682", "U+A683", "", "U+A684", "U+A685", "",
    "U+A686", "U+A687", "", "U+A688", "U+A689", "", "U+A68A", "U+A68B", "",
    "U+A68C", "U+A68D", "", "U+A68E", "U+A68F", "", "U+A690", "U+A691", "",
    "U+A692", "U+A693", "", "U+A694", "U+A695", "", "U+A696", "U+A697", "",
    "U+A698", "U+A699", "", "U+A69A", "U+A69B", "", "U+A722", "U+A723", "",
    "U+A724", "U+A725", "", "U+A726", "U+A727", "", "U+A728", "U+A729", "",
    "U+A72A", "U+A72B", "", "U+A72C", "U+A72D", "", "U+A72E", "U+A72F", "",
    "U+A732", "U+A733", "", "U+A734", "U+A735", "", "U+A736", "U+A737", "",
    "U+A738", "U+A739", "", "U+A73A", "U+A73B", "", "U+A73C", "U+A73D", "",
    "U+A73E", "U+A73F", "", "U+A740", "U+A741", "", "U+A742", "U+A743", "",
    "U+A744", "U+A745", "", "U+A746", "U+A747", "", "U+A748", "U+A749", "",
    "U+A74A", "U+A74B", "", "U+A74C", "U+A74D", "", "U+A74E", "U+A74F", "",
    "U+A750", "U+A751", "", "U+A752", "U+A753", "", "U+A754", "U+A755", "",
    "U+A756", "U+A757", "", "U+A758", "U+A759", "", "U+A75A", "U+A75B", "",
    "U+A75C", "U+A75D", "", "U+A75E", "U+A75F", "", "U+A760", "U+A761", "",
    "U+A762", "U+A763", "", "U+A764", "U+A765", "", "U+A766", "U+A767", "",
    "U+A768", "U+A769", "", "U+A76A", "U+A76B", "", "U+A76C", "U+A76D", "",
    "U+A76E", "U+A76F", "", "U+A779", "U+A77A", "", "U+A77B", "U+A77C", "",
    "U+A77D", "U+1D79", "", "U+A77E", "U+A77F", "", "U+A780", "U+A781", "",
    "U+A782", "U+A783", "", "U+A784", "U+A785", "", "U+A786", "U+A787", "",
    "U+A78B", "U+A78C", "", "U+A78D", "U+0265", "", "U+A790", "U+A791", "",
    "U+A792", "U+A793", "", "U+A796", "U+A797", "", "U+A798", "U+A799", "",
    "U+A79A", "U+A79B", "", "U+A79C", "U+A79D", "", "U+A79E", "U+A79F", "",
    "U+A7A0", "U+A7A1", "", "U+A7A2", "U+A7A3", "", "U+A7A4", "U+A7A5", "",
    "U+A7A6", "U+A7A7", "", "U+A7A8", "U+A7A9", "", "U+A7AA", "U+0266", "",
    "U+A7AB", "U+025C", "", "U+A7AC", "U+0261", "", "U+A7AD", "U+026C", "",
    "U+A7AE", "U+026A", "", "U+A7B0", "U+029E", "", "U+A7B1", "U+0287", "",
    "U+A7B2", "U+029D", "", "U+A7B3", "U+AB53", "", "U+A7B4", "U+A7B5", "",
    "U+A7B6", "U+A7B7", "", "U+A7B8", "U+A7B9", "", "U+A7BA", "U+A7BB", "",
    "U+A7BC", "U+A7BD", "", "U+A7BE", "U+A7BF", "", "U+A7C0", "U+A7C1", "",
    "U+A7C2", "U+A7C3", "", "U+A7C4", "U+A794", "", "U+A7C5", "U+0282", "",
    "U+A7C6", "U+1D8E", "", "U+A7C7", "U+A7C8", "", "U+A7C9", "U+A7CA", "",
    "U+A7CB", "U+0264", "", "U+A7CC", "U+A7CD", "", "U+A7CE", "U+A7CF", "",
    "U+A7D0", "U+A7D1", "", "U+A7D2", "U+A7D3", "", "U+A7D4", "U+A7D5", "",
    "U+A7D6", "U+A7D7", "", "U+A7D8", "U+A7D9", "", "U+A7DA", "U+A7DB", "",
    "U+A7DC", "U+019B", "", "U+A7F5", "U+A7F6", "", "U+FF21", "U+FF41", "",
    "U+FF22", "U+FF42", "", "U+FF23", "U+FF43", "", "U+FF24", "U+FF44", "",
    "U+FF25", "U+FF45", "", "U+FF26", "U+FF46", "", "U+FF27", "U+FF47", "",
    "U+FF28", "U+FF48", "", "U+FF29", "U+FF49", "", "U+FF2A", "U+FF4A", "",
    "U+FF2B", "U+FF4B", "", "U+FF2C", "U+FF4C", "", "U+FF2D", "U+FF4D", "",
    "U+FF2E", "U+FF4E", "", "U+FF2F", "U+FF4F", "", "U+FF30", "U+FF50", "",
    "U+FF31", "U+FF51", "", "U+FF32", "U+FF52", "", "U+FF33", "U+FF53", "",
    "U+FF34", "U+FF54", "", "U+FF35", "U+FF55", "", "U+FF36", "U+FF56", "",
    "U+FF37", "U+FF57", "", "U+FF38", "U+FF58", "", "U+FF39", "U+FF59", "",
    "U+FF3A", "U+FF5A", "", "U+D801U+DC00", "U+D801", "U+DC28",
    "U+D801U+DC01", "U+D801", "U+DC29", "U+D801U+DC02", "U+D801", "U+DC2A",
    "U+D801U+DC03", "U+D801", "U+DC2B", "U+D801U+DC04", "U+D801", "U+DC2C",
    "U+D801U+DC05", "U+D801", "U+DC2D", "U+D801U+DC06", "U+D801", "U+DC2E",
    "U+D801U+DC07", "U+D801", "U+DC2F", "U+D801U+DC08", "U+D801", "U+DC30",
    "U+D801U+DC09", "U+D801", "U+DC31", "U+D801U+DC0A", "U+D801", "U+DC32",
    "U+D801U+DC0B", "U+D801", "U+DC33", "U+D801U+DC0C", "U+D801", "U+DC34",
    "U+D801U+DC0D", "U+D801", "U+DC35", "U+D801U+DC0E", "U+D801", "U+DC36",
    "U+D801U+DC0F", "U+D801", "U+DC37", "U+D801U+DC10", "U+D801", "U+DC38",
    "U+D801U+DC11", "U+D801", "U+DC39", "U+D801U+DC12", "U+D801", "U+DC3A",
    "U+D801U+DC13", "U+D801", "U+DC3B", "U+D801U+DC14", "U+D801", "U+DC3C",
    "U+D801U+DC15", "U+D801", "U+DC3D", "U+D801U+DC16", "U+D801", "U+DC3E",
    "U+D801U+DC17", "U+D801", "U+DC3F", "U+D801U+DC18", "U+D801", "U+DC40",
    "U+D801U+DC19", "U+D801", "U+DC41", "U+D801U+DC1A", "U+D801", "U+DC42",
    "U+D801U+DC1B", "U+D801", "U+DC43", "U+D801U+DC1C", "U+D801", "U+DC44",
    "U+D801U+DC1D", "U+D801", "U+DC45", "U+D801U+DC1E", "U+D801", "U+DC46",
    "U+D801U+DC1F", "U+D801", "U+DC47", "U+D801U+DC20", "U+D801", "U+DC48",
    "U+D801U+DC21", "U+D801", "U+DC49", "U+D801U+DC22", "U+D801", "U+DC4A",
    "U+D801U+DC23", "U+D801", "U+DC4B", "U+D801U+DC24", "U+D801", "U+DC4C",
    "U+D801U+DC25", "U+D801", "U+DC4D", "U+D801U+DC26", "U+D801", "U+DC4E",
    "U+D801U+DC27", "U+D801", "U+DC4F", "U+D801U+DCB0", "U+D801", "U+DCD8",
    "U+D801U+DCB1", "U+D801", "U+DCD9", "U+D801U+DCB2", "U+D801", "U+DCDA",
    "U+D801U+DCB3", "U+D801", "U+DCDB", "U+D801U+DCB4", "U+D801", "U+DCDC",
    "U+D801U+DCB5", "U+D801", "U+DCDD", "U+D801U+DCB6", "U+D801", "U+DCDE",
    "U+D801U+DCB7", "U+D801", "U+DCDF", "U+D801U+DCB8", "U+D801", "U+DCE0",
    "U+D801U+DCB9", "U+D801", "U+DCE1", "U+D801U+DCBA", "U+D801", "U+DCE2",
    "U+D801U+DCBB", "U+D801", "U+DCE3", "U+D801U+DCBC", "U+D801", "U+DCE4",
    "U+D801U+DCBD", "U+D801", "U+DCE5", "U+D801U+DCBE", "U+D801", "U+DCE6",
    "U+D801U+DCBF", "U+D801", "U+DCE7", "U+D801U+DCC0", "U+D801", "U+DCE8",
    "U+D801U+DCC1", "U+D801", "U+DCE9", "U+D801U+DCC2", "U+D801", "U+DCEA",
    "U+D801U+DCC3", "U+D801", "U+DCEB", "U+D801U+DCC4", "U+D801", "U+DCEC",
    "U+D801U+DCC5", "U+D801", "U+DCED", "U+D801U+DCC6", "U+D801", "U+DCEE",
    "U+D801U+DCC7", "U+D801", "U+DCEF", "U+D801U+DCC8", "U+D801", "U+DCF0",
    "U+D801U+DCC9", "U+D801", "U+DCF1", "U+D801U+DCCA", "U+D801", "U+DCF2",
    "U+D801U+DCCB", "U+D801", "U+DCF3", "U+D801U+DCCC", "U+D801", "U+DCF4",
    "U+D801U+DCCD", "U+D801", "U+DCF5", "U+D801U+DCCE", "U+D801", "U+DCF6",
    "U+D801U+DCCF", "U+D801", "U+DCF7", "U+D801U+DCD0", "U+D801", "U+DCF8",
    "U+D801U+DCD1", "U+D801", "U+DCF9", "U+D801U+DCD2", "U+D801", "U+DCFA",
    "U+D801U+DCD3", "U+D801", "U+DCFB", "U+D801U+DD70", "U+D801", "U+DD97",
    "U+D801U+DD71", "U+D801", "U+DD98", "U+D801U+DD72", "U+D801", "U+DD99",
    "U+D801U+DD73", "U+D801", "U+DD9A", "U+D801U+DD74", "U+D801", "U+DD9B",
    "U+D801U+DD75", "U+D801", "U+DD9C", "U+D801U+DD76", "U+D801", "U+DD9D",
    "U+D801U+DD77", "U+D801", "U+DD9E", "U+D801U+DD78", "U+D801", "U+DD9F",
    "U+D801U+DD79", "U+D801", "U+DDA0", "U+D801U+DD7A", "U+D801", "U+DDA1",
    "U+D801U+DD7C", "U+D801", "U+DDA3", "U+D801U+DD7D", "U+D801", "U+DDA4",
    "U+D801U+DD7E", "U+D801", "U+DDA5", "U+D801U+DD7F", "U+D801", "U+DDA6",
    "U+D801U+DD80", "U+D801", "U+DDA7", "U+D801U+DD81", "U+D801", "U+DDA8",
    "U+D801U+DD82", "U+D801", "U+DDA9", "U+D801U+DD83", "U+D801", "U+DDAA",
    "U+D801U+DD84", "U+D801", "U+DDAB", "U+D801U+DD85", "U+D801", "U+DDAC",
    "U+D801U+DD86", "U+D801", "U+DDAD", "U+D801U+DD87", "U+D801", "U+DDAE",
    "U+D801U+DD88", "U+D801", "U+DDAF", "U+D801U+DD89", "U+D801", "U+DDB0",
    "U+D801U+DD8A", "U+D801", "U+DDB1", "U+D801U+DD8C", "U+D801", "U+DDB3",
    "U+D801U+DD8D", "U+D801", "U+DDB4", "U+D801U+DD8E", "U+D801", "U+DDB5",
    "U+D801U+DD8F", "U+D801", "U+DDB6", "U+D801U+DD90", "U+D801", "U+DDB7",
    "U+D801U+DD91", "U+D801", "U+DDB8", "U+D801U+DD92", "U+D801", "U+DDB9",
    "U+D801U+DD94", "U+D801", "U+DDBB", "U+D801U+DD95", "U+D801", "U+DDBC",
    "U+D803U+DC80", "U+D803", "U+DCC0", "U+D803U+DC81", "U+D803", "U+DCC1",
    "U+D803U+DC82", "U+D803", "U+DCC2", "U+D803U+DC83", "U+D803", "U+DCC3",
    "U+D803U+DC84", "U+D803", "U+DCC4", "U+D803U+DC85", "U+D803", "U+DCC5",
    "U+D803U+DC86", "U+D803", "U+DCC6", "U+D803U+DC87", "U+D803", "U+DCC7",
    "U+D803U+DC88", "U+D803", "U+DCC8", "U+D803U+DC89", "U+D803", "U+DCC9",
    "U+D803U+DC8A", "U+D803", "U+DCCA", "U+D803U+DC8B", "U+D803", "U+DCCB",
    "U+D803U+DC8C", "U+D803", "U+DCCC", "U+D803U+DC8D", "U+D803", "U+DCCD",
    "U+D803U+DC8E", "U+D803", "U+DCCE", "U+D803U+DC8F", "U+D803", "U+DCCF",
    "U+D803U+DC90", "U+D803", "U+DCD0", "U+D803U+DC91", "U+D803", "U+DCD1",
    "U+D803U+DC92", "U+D803", "U+DCD2", "U+D803U+DC93", "U+D803", "U+DCD3",
    "U+D803U+DC94", "U+D803", "U+DCD4", "U+D803U+DC95", "U+D803", "U+DCD5",
    "U+D803U+DC96", "U+D803", "U+DCD6", "U+D803U+DC97", "U+D803", "U+DCD7",
    "U+D803U+DC98", "U+D803", "U+DCD8", "U+D803U+DC99", "U+D803", "U+DCD9",
    "U+D803U+DC9A", "U+D803", "U+DCDA", "U+D803U+DC9B", "U+D803", "U+DCDB",
    "U+D803U+DC9C", "U+D803", "U+DCDC", "U+D803U+DC9D", "U+D803", "U+DCDD",
    "U+D803U+DC9E", "U+D803", "U+DCDE", "U+D803U+DC9F", "U+D803", "U+DCDF",
    "U+D803U+DCA0", "U+D803", "U+DCE0", "U+D803U+DCA1", "U+D803", "U+DCE1",
    "U+D803U+DCA2", "U+D803", "U+DCE2", "U+D803U+DCA3", "U+D803", "U+DCE3",
    "U+D803U+DCA4", "U+D803", "U+DCE4", "U+D803U+DCA5", "U+D803", "U+DCE5",
    "U+D803U+DCA6", "U+D803", "U+DCE6", "U+D803U+DCA7", "U+D803", "U+DCE7",
    "U+D803U+DCA8", "U+D803", "U+DCE8", "U+D803U+DCA9", "U+D803", "U+DCE9",
    "U+D803U+DCAA", "U+D803", "U+DCEA", "U+D803U+DCAB", "U+D803", "U+DCEB",
    "U+D803U+DCAC", "U+D803", "U+DCEC", "U+D803U+DCAD", "U+D803", "U+DCED",
    "U+D803U+DCAE", "U+D803", "U+DCEE", "U+D803U+DCAF", "U+D803", "U+DCEF",
    "U+D803U+DCB0", "U+D803", "U+DCF0", "U+D803U+DCB1", "U+D803", "U+DCF1",
    "U+D803U+DCB2", "U+D803", "U+DCF2", "U+D803U+DD50", "U+D803", "U+DD70",
    "U+D803U+DD51", "U+D803", "U+DD71", "U+D803U+DD52", "U+D803", "U+DD72",
    "U+D803U+DD53", "U+D803", "U+DD73", "U+D803U+DD54", "U+D803", "U+DD74",
    "U+D803U+DD55", "U+D803", "U+DD75", "U+D803U+DD56", "U+D803", "U+DD76",
    "U+D803U+DD57", "U+D803", "U+DD77", "U+D803U+DD58", "U+D803", "U+DD78",
    "U+D803U+DD59", "U+D803", "U+DD79", "U+D803U+DD5A", "U+D803", "U+DD7A",
    "U+D803U+DD5B", "U+D803", "U+DD7B", "U+D803U+DD5C", "U+D803", "U+DD7C",
    "U+D803U+DD5D", "U+D803", "U+DD7D", "U+D803U+DD5E", "U+D803", "U+DD7E",
    "U+D803U+DD5F", "U+D803", "U+DD7F", "U+D803U+DD60", "U+D803", "U+DD80",
    "U+D803U+DD61", "U+D803", "U+DD81", "U+D803U+DD62", "U+D803", "U+DD82",
    "U+D803U+DD63", "U+D803", "U+DD83", "U+D803U+DD64", "U+D803", "U+DD84",
    "U+D803U+DD65", "U+D803", "U+DD85", "U+D806U+DCA0", "U+D806", "U+DCC0",
    "U+D806U+DCA1", "U+D806", "U+DCC1", "U+D806U+DCA2", "U+D806", "U+DCC2",
    "U+D806U+DCA3", "U+D806", "U+DCC3", "U+D806U+DCA4", "U+D806", "U+DCC4",
    "U+D806U+DCA5", "U+D806", "U+DCC5", "U+D806U+DCA6", "U+D806", "U+DCC6",
    "U+D806U+DCA7", "U+D806", "U+DCC7", "U+D806U+DCA8", "U+D806", "U+DCC8",
    "U+D806U+DCA9", "U+D806", "U+DCC9", "U+D806U+DCAA", "U+D806", "U+DCCA",
    "U+D806U+DCAB", "U+D806", "U+DCCB", "U+D806U+DCAC", "U+D806", "U+DCCC",
    "U+D806U+DCAD", "U+D806", "U+DCCD", "U+D806U+DCAE", "U+D806", "U+DCCE",
    "U+D806U+DCAF", "U+D806", "U+DCCF", "U+D806U+DCB0", "U+D806", "U+DCD0",
    "U+D806U+DCB1", "U+D806", "U+DCD1", "U+D806U+DCB2", "U+D806", "U+DCD2",
    "U+D806U+DCB3", "U+D806", "U+DCD3", "U+D806U+DCB4", "U+D806", "U+DCD4",
    "U+D806U+DCB5", "U+D806", "U+DCD5", "U+D806U+DCB6", "U+D806", "U+DCD6",
    "U+D806U+DCB7", "U+D806", "U+DCD7", "U+D806U+DCB8", "U+D806", "U+DCD8",
    "U+D806U+DCB9", "U+D806", "U+DCD9", "U+D806U+DCBA", "U+D806", "U+DCDA",
    "U+D806U+DCBB", "U+D806", "U+DCDB", "U+D806U+DCBC", "U+D806", "U+DCDC",
    "U+D806U+DCBD", "U+D806", "U+DCDD", "U+D806U+DCBE", "U+D806", "U+DCDE",
    "U+D806U+DCBF", "U+D806", "U+DCDF", "U+D81BU+DE40", "U+D81B", "U+DE60",
    "U+D81BU+DE41", "U+D81B", "U+DE61", "U+D81BU+DE42", "U+D81B", "U+DE62",
    "U+D81BU+DE43", "U+D81B", "U+DE63", "U+D81BU+DE44", "U+D81B", "U+DE64",
    "U+D81BU+DE45", "U+D81B", "U+DE65", "U+D81BU+DE46", "U+D81B", "U+DE66",
    "U+D81BU+DE47", "U+D81B", "U+DE67", "U+D81BU+DE48", "U+D81B", "U+DE68",
    "U+D81BU+DE49", "U+D81B", "U+DE69", "U+D81BU+DE4A", "U+D81B", "U+DE6A",
    "U+D81BU+DE4B", "U+D81B", "U+DE6B", "U+D81BU+DE4C", "U+D81B", "U+DE6C",
    "U+D81BU+DE4D", "U+D81B", "U+DE6D", "U+D81BU+DE4E", "U+D81B", "U+DE6E",
    "U+D81BU+DE4F", "U+D81B", "U+DE6F", "U+D81BU+DE50", "U+D81B", "U+DE70",
    "U+D81BU+DE51", "U+D81B", "U+DE71", "U+D81BU+DE52", "U+D81B", "U+DE72",
    "U+D81BU+DE53", "U+D81B", "U+DE73", "U+D81BU+DE54", "U+D81B", "U+DE74",
    "U+D81BU+DE55", "U+D81B", "U+DE75", "U+D81BU+DE56", "U+D81B", "U+DE76",
    "U+D81BU+DE57", "U+D81B", "U+DE77", "U+D81BU+DE58", "U+D81B", "U+DE78",
    "U+D81BU+DE59", "U+D81B", "U+DE79", "U+D81BU+DE5A", "U+D81B", "U+DE7A",
    "U+D81BU+DE5B", "U+D81B", "U+DE7B", "U+D81BU+DE5C", "U+D81B", "U+DE7C",
    "U+D81BU+DE5D", "U+D81B", "U+DE7D", "U+D81BU+DE5E", "U+D81B", "U+DE7E",
    "U+D81BU+DE5F", "U+D81B", "U+DE7F", "U+D81BU+DEA0", "U+D81B", "U+DEBB",
    "U+D81BU+DEA1", "U+D81B", "U+DEBC", "U+D81BU+DEA2", "U+D81B", "U+DEBD",
    "U+D81BU+DEA3", "U+D81B", "U+DEBE", "U+D81BU+DEA4", "U+D81B", "U+DEBF",
    "U+D81BU+DEA5", "U+D81B", "U+DEC0", "U+D81BU+DEA6", "U+D81B", "U+DEC1",
    "U+D81BU+DEA7", "U+D81B", "U+DEC2", "U+D81BU+DEA8", "U+D81B", "U+DEC3",
    "U+D81BU+DEA9", "U+D81B", "U+DEC4", "U+D81BU+DEAA", "U+D81B", "U+DEC5",
    "U+D81BU+DEAB", "U+D81B", "U+DEC6", "U+D81BU+DEAC", "U+D81B", "U+DEC7",
    "U+D81BU+DEAD", "U+D81B", "U+DEC8", "U+D81BU+DEAE", "U+D81B", "U+DEC9",
    "U+D81BU+DEAF", "U+D81B", "U+DECA", "U+D81BU+DEB0", "U+D81B", "U+DECB",
    "U+D81BU+DEB1", "U+D81B", "U+DECC", "U+D81BU+DEB2", "U+D81B", "U+DECD",
    "U+D81BU+DEB3", "U+D81B", "U+DECE", "U+D81BU+DEB4", "U+D81B", "U+DECF",
    "U+D81BU+DEB5", "U+D81B", "U+DED0", "U+D81BU+DEB6", "U+D81B", "U+DED1",
    "U+D81BU+DEB7", "U+D81B", "U+DED2", "U+D81BU+DEB8", "U+D81B", "U+DED3",
    "U+D83AU+DD00", "U+D83A", "U+DD22", "U+D83AU+DD01", "U+D83A", "U+DD23",
    "U+D83AU+DD02", "U+D83A", "U+DD24", "U+D83AU+DD03", "U+D83A", "U+DD25",
    "U+D83AU+DD04", "U+D83A", "U+DD26", "U+D83AU+DD05", "U+D83A", "U+DD27",
    "U+D83AU+DD06", "U+D83A", "U+DD28", "U+D83AU+DD07", "U+D83A", "U+DD29",
    "U+D83AU+DD08", "U+D83A", "U+DD2A", "U+D83AU+DD09", "U+D83A", "U+DD2B",
    "U+D83AU+DD0A", "U+D83A", "U+DD2C", "U+D83AU+DD0B", "U+D83A", "U+DD2D",
    "U+D83AU+DD0C", "U+D83A", "U+DD2E", "U+D83AU+DD0D", "U+D83A", "U+DD2F",
    "U+D83AU+DD0E", "U+D83A", "U+DD30", "U+D83AU+DD0F", "U+D83A", "U+DD31",
    "U+D83AU+DD10", "U+D83A", "U+DD32", "U+D83AU+DD11", "U+D83A", "U+DD33",
    "U+D83AU+DD12", "U+D83A", "U+DD34", "U+D83AU+DD13", "U+D83A", "U+DD35",
    "U+D83AU+DD14", "U+D83A", "U+DD36", "U+D83AU+DD15", "U+D83A", "U+DD37",
    "U+D83AU+DD16", "U+D83A", "U+DD38", "U+D83AU+DD17", "U+D83A", "U+DD39",
    "U+D83AU+DD18", "U+D83A", "U+DD3A", "U+D83AU+DD19", "U+D83A", "U+DD3B",
    "U+D83AU+DD1A", "U+D83A", "U+DD3C", "U+D83AU+DD1B", "U+D83A", "U+DD3D",
    "U+D83AU+DD1C", "U+D83A", "U+DD3E", "U+D83AU+DD1D", "U+D83A", "U+DD3F",
    "U+D83AU+DD1E", "U+D83A", "U+DD40", "U+D83AU+DD1F", "U+D83A", "U+DD41",
    "U+D83AU+DD20", "U+D83A", "U+DD42", "U+D83AU+DD21", "U+D83A", "U+DD43">>

\* Rows of 4: a code point whose upper case differs from it, then its upper
\* case in 3 code units, "" where it has fewer
UpperCaseRows ==
  <<"a", "A", "", "", "b", "B", "", "", "c", "C", "", "", "d", "D", "", "",
    "e", "E", "", "", "f", "F", "", "", "g", "G", "", "", "h", "H", "", "",
    "i", "I", "", "", "j", "J", "", "", "k", "K", "", "", "l", "L", "", "",
    "m", "M", "", "", "n", "N", "", "", "o", "O", "", "", "p", "P", "", "",
    "q", "Q", "", "", "r", "R", "", "", "s", "S", "", "", "t", "T", "", "",
    "u", "U", "", "", "v", "V", "", "", "w", "W", "", "", "x", "X", "", "",
    "y", "Y", "", "", "z", "Z", "", "", "U+00B5", "U+039C", "", "",
    "U+00DF", "S", "S", "", "U+00E0", "U+00C0", "", "",
    "U+00E1", "U+00C1", "", "", "U+00E2", "U+00C2", "", "",
    "U+00E3", "U+00C3", "", "", "U+00E4", "U+00C4", "", "",
    "U+00E5", "U+00C5", "", "", "U+00E6", "U+00C6", "", "",
    "U+00E7", "U+00C7", "", "", "U+00E8", "U+00C8", "", "",
    "U+00E9", "U+00C9", "", "", "U+00EA", "U+00CA", "", "",
    "U+00EB", "U+00CB", "", "", "U+00EC", "U+00CC", "", "",
    "U+00ED", "U+00CD", "", "", "U+00EE", "U+00CE", "", "",
    "U+00EF", "U+00CF", "", "", "U+00F0", "U+00D0", "", "",
    "U+00F1", "U+00D1", "", "", "U+00F2", "U+00D2", "", "",
    "U+00F3", "U+00D3", "", "", "U+00F4", "U+00D4", "", "",
    "U+00F5", "U+00D5", "", "", "U+00F6", "U+00D6", "", "",
    "U+00F8", "U+00D8", "", "", "U+00F9", "U+00D9", "", "",
    "U+00FA", "U+00DA", "", "", "U+00FB", "U+00DB", "", "",
    "U+00FC", "U+00DC", "", "", "U+00FD", "U+00DD", "", "",
    "U+00FE", "U+00DE", "", "", "U+00FF", "U+0178", "", "",
    "U+0101", "U+0100", "", "", "U+0103", "U+0102", "", "",
    "U+0105", "U+0104", "", "", "U+0107", "U+0106", "", "",
    "U+0109", "U+0108", "", "", "U+010B", "U+010A", "", "",
    "U+010D", "U+010C", "", "", "U+010F", "U+010E", "", "",
    "U+0111", "U+0110", "", "", "U+0113", "U+0112", "", "",
    "U+0115", "U+0114", "", "", "U+0117", "U+0116", "", "",
    "U+0119", "U+0118", "", "", "U+011B", "U+011A", "", "",
    "U+011D", "U+011C", "", "", "U+011F", "U+011E", "", "",
    "U+0121", "U+0120", "", "", "U+0123", "U+0122", "", "",
    "U+0125", "U+0124", "", "", "U+0127", "U+0126", "", "",
    "U+0129", "U+0128", "", "", "U+012B", "U+012A", "", "",
    "U+012D", "U+012C", "", "", "U+012F", "U+012E", "", "",
    "U+0131", "I", "", "", "U+0133", "U+0132", "", "",
    "U+0135", "U+0134", "", "", "U+0137", "U+0136", "", "",
    "U+013A", "U+0139", "", "", "U+013C", "U+013B", "", "",
    "U+013E", "U+013D", "", "", "U+0140", "U+013F", "", "",
    "U+0142", "U+0141", "", "", "U+0144", "U+0143", "", "",
    "U+0146", "U+0145", "", "", "U+0148", "U+0147", "", "",
    "U+0149", "U+02BC", "N", "", "U+014B", "U+014A", "", "",
    "U+014D", "U+014C", "", "", "U+014F", "U+014E", "", "",
    "U+0151", "U+0150", "", "", "U+0153", "U+0152", "", "",
    "U+0155", "U+0154", "", "", "U+0157", "U+0156", "", "",
    "U+0159", "U+0158", "", "", "U+015B", "U+015A", "", "",
    "U+015D", "U+015C", "", "", "U+015F", "U+015E", "", "",
    "U+0161", "U+0160", "", "", "U+0163", "U+0162", "", "",
    "U+0165", "U+0164", "", "", "U+0167", "U+0166", "", "",
    "U+0169", "U+0168", "", "", "U+016B", "U+016A", "", "",
    "U+016D", "U+016C", "", "", "U+016F", "U+016E", "", "",
    "U+0171", "U+0170", "", "", "U+0173", "U+0172", "", "",
    "U+0175", "U+0174", "", "", "U+0177", "U+0176", "", "",
    "U+017A", "U+0179", "", "", "U+017C", "U+017B", "", "",
    "U+017E", "U+017D", "", "", "U+017F", "S", "", "",
    "U+0180", "U+0243", "", "", "U+0183", "U+0182", "", "",
    "U+0185", "U+0184", "", "", "U+0188", "U+0187", "", "",
    "U+018C", "U+018B", "", "", "U+0192", "U+0191", "", "",
    "U+0195", "U+01F6", "", "", "U+0199", "U+0198", "", "",
    "U+019A", "U+023D", "", "", "U+019B", "U+A7DC", "", "",
    "U+019E", "U+0220", "", "", "U+01A1", "U+01A0", "", "",
    "U+01A3", "U+01A2", "", "", "U+01A5", "U+01A4", "", "",
    "U+01A8", "U+01A7", "", "", "U+01AD", "U+01AC", "", "",
    "U+01B0", "U+01AF", "", "", "U+01B4", "U+01B3", "", "",
    "U+01B6", "U+01B5", "", "", "U+01B9", "U+01B8", "", "",
    "U+01BD", "U+01BC", "", "", "U+01BF", "U+01F7", "", "",
    "U+01C5", "U+01C4", "", "", "U+01C6", "U+01C4", "", "",
    "U+01C8", "U+01C7", "", "", "U+01C9", "U+01C7", "", "",
    "U+01CB", "U+01CA", "", "", "U+01CC", "U+01CA", "", "",
    "U+01CE", "U+01CD", "", "", "U+01D0", "U+01CF", "", "",
    "U+01D2", "U+01D1", "", "", "U+01D4", "U+01D3", "", "",
    "U+01D6", "U+01D5", "", "", "U+01D8", "U+01D7", "", "",
    "U+01DA", "U+01D9", "", "", "U+01DC", "U+01DB", "", "",
    "U+01DD", "U+018E", "", "", "U+01DF", "U+01DE", "", "",
    "U+01E1", "U+01E0", "", "", "U+01E3", "U+01E2", "", "",
    "U+01E5", "U+01E4", "", "", "U+01E7", "U+01E6", "", "",
    "U+01E9", "U+01E8", "", "", "U+01EB", "U+01EA", "", "",
    "U+01ED", "U+01EC", "", "", "U+01EF", "U+01EE", "", "",
    "U+01F0", "J", "U+030C", "", "U+01F2", "U+01F1", "", "",
    "U+01F3", "U+01F1", "", "", "U+01F5", "U+01F4", "", "",
    "U+01F9", "U+01F8", "", "", "U+01FB", "U+01FA", "", "",
    "U+01FD", "U+01FC", "", "", "U+01FF", "U+01FE", "", "",
    "U+0201", "U+0200", "", "", "U+0203", "U+0202", "", "",
    "U+0205", "U+0204", "", "", "U+0207", "U+0206", "", "",
    "U+0209", "U+0208", "", "", "U+020B", "U+020A", "", "",
    "U+020D", "U+020C", "", "", "U+020F", "U+020E", "", "",
    "U+0211", "U+0210", "", "", "U+0213", "U+0212", "", "",
    "U+0215", "U+0214", "", "", "U+0217", "U+0216", "", "",
    "U+0219", "U+0218", "", "", "U+021B", "U+021A", "", "",
    "U+021D", "U+021C", "", "", "U+021F", "U+021E", "", "",
    "U+0223", "U+0222", "", "", "U+0225", "U+0224", "", "",
    "U+0227", "U+0226", "", "", "U+0229", "U+0228", "", "",
    "U+022B", "U+022A", "", "", "U+022D", "U+022C", "", "",
    "U+022F", "U+022E", "", "", "U+0231", "U+0230", "", "",
    "U+0233", "U+0232", "", "", "U+023C", "U+023B", "", "",
    "U+023F", "U+2C7E", "", "", "U+0240", "U+2C7F", "", "",
    "U+0242", "U+0241", "", "", "U+0247", "U+0246", "", "",
    "U+0249", "U+0248", "", "", "U+024B", "U+024A", "", "",
    "U+024D", "U+024C", "", "", "U+024F", "U+024E", "", "",
    "U+0250", "U+2C6F", "", "", "U+0251", "U+2C6D", "", "",
    "U+0252", "U+2C70", "", "", "U+0253", "U+0181", "", "",
    "U+0254", "U+0186", "", "", "U+0256", "U+0189", "", "",
    "U+0257", "U+018A", "", "", "U+0259", "U+018F", "", "",
    "U+025B", "U+0190", "", "", "U+025C", "U+A7AB", "", "",
    "U+0260", "U+0193", "", "", "U+0261", "U+A7AC", "", "",
    "U+0263", "U+0194", "", "", "U+0264", "U+A7CB", "", "",
    "U+0265", "U+A78D", "", "", "U+0266", "U+A7AA", "", "",
    "U+0268", "U+0197", "", "", "U+0269", "U+0196", "", "",
    "U+026A", "U+A7AE", "", "", "U+026B", "U+2C62", "", "",
    "U+026C", "U+A7AD", "", "", "U+026F", "U+019C", "", "",
    "U+0271", "U+2C6E", "", "", "U+0272", "U+019D", "", "",
    "U+0275", "U+019F", "", "", "U+027D", "U+2C64", "", "",
    "U+0280", "U+01A6", "", "", "U+0282", "U+A7C5", "", "",
    "U+0283", "U+01A9", "", "", "U+0287", "U+A7B1", "", "",
    "U+0288", "U+01AE", "", "", "U+0289", "U+0244", "", "",
    "U+028A", "U+01B1", "", "", "U+028B", "U+01B2", "", "",
    "U+028C", "U+0245", "", "", "U+0292", "U+01B7", "", "",
    "U+029D", "U+A7B2", "", "", "U+029E", "U+A7B0", "", "",
    "U+0345", "U+0399", "", "", "U+0371", "U+0370", "", "",
    "U+0373", "U+0372", "", "", "U+0377", "U+0376", "", "",
    "U+037B", "U+03FD", "", "", "U+037C", "U+03FE", "", "",
    "U+037D", "U+03FF", "", "", "U+0390", "U+0399", "U+0308", "U+0301",
    "U+03AC", "U+0386", "", "", "U+03AD", "U+0388", "", "",
    "U+03AE", "U+0389", "", "", "U+03AF", "U+038A", "", "",
    "U+03B0", "U+03A5", "U+0308", "U+0301", "U+03B1", "U+0391", "", "",
    "U+03B2", "U+0392", "", "", "U+03B3", "U+0393", "", "",
    "U+03B4", "U+0394", "", "", "U+03B5", "U+0395", "", "",
    "U+03B6", "U+0396", "", "", "U+03B7", "U+0397", "", "",
    "U+03B8", "U+0398", "", "", "U+03B9", "U+0399", "", "",
    "U+03BA", "U+039A", "", "", "U+03BB", "U+039B", "", "",
    "U+03BC", "U+039C", "", "", "U+03BD", "U+039D", "", "",
    "U+03BE", "U+039E", "", "", "U+03BF", "U+039F", "", "",
    "U+03C0", "U+03A0", "", "", "U+03C1", "U+03A1", "", "",
    "U+03C2", "U+03A3", "", "", "U+03C3", "U+03A3", "", "",
    "U+03C4", "U+03A4", "", "", "U+03C5", "U+03A5", "", "",
    "U+03C6", "U+03A6", "", "", "U+03C7", "U+03A7", "", "",
    "U+03C8", "U+03A8", "", "", "U+03C9", "U+03A9", "", "",
    "U+03CA", "U+03AA", "", "", "U+03CB", "U+03AB", "", "",
    "U+03CC", "U+038C", "", "", "U+03CD", "U+038E", "", "",
    "U+03CE", "U+038F", "", "", "U+03D0", "U+0392", "", "",
    "U+03D1", "U+0398", "", "", "U+03D5", "U+03A6", "", "",
    "U+03D6", "U+03A0", "", "", "U+03D7", "U+03CF", "", "",
    "U+03D9", "U+03D8", "", "", "U+03DB", "U+03DA", "", "",
    "U+03DD", "U+03DC", "", "", "U+03DF", "U+03DE", "", "",
    "U+03E1", "U+03E0", "", "", "U+03E3", "U+03E2", "", "",
    "U+03E5", "U+03E4", "", "", "U+03E7", "U+03E6", "", "",
    "U+03E9", "U+03E8", "", "", "U+03EB", "U+03EA", "", "",
    "U+03ED", "U+03EC", "", "", "U+03EF", "U+03EE", "", "",
    "U+03F0", "U+039A", "", "", "U+03F1", "U+03A1", "", "",
    "U+03F2", "U+03F9", "", "", "U+03F3", "U+037F", "", "",
    "U+03F5", "U+0395", "", "", "U+03F8", "U+03F7", "", "",
    "U+03FB", "U+03FA", "", "", "U+0430", "U+0410", "", "",
    "U+0431", "U+0411", "", "", "U+0432", "U+0412", "", "",
    "U+0433", "U+0413", "", "", "U+0434", "U+0414", "", "",
    "U+0435", "U+0415", "", "", "U+0436", "U+0416", "", "",
    "U+0437", "U+0417", "", "", "U+0438", "U+0418", "", "",
    "U+0439", "U+0419", "", "", "U+043A", "U+041A", "", "",
    "U+043B", "U+041B", "", "", "U+043C", "U+041C", "", "",
    "U+043D", "U+041D", "", "", "U+043E", "U+041E", "", "",
    "U+043F", "U+041F", "", "", "U+0440", "U+0420", "", "",
    "U+0441", "U+0421", "", "", "U+0442", "U+0422", "", "",
    "U+0443", "U+0423", "", "", "U+0444", "U+0424", "", "",
    "U+0445", "U+0425", "", "", "U+0446", "U+0426", "", "",
    "U+0447", "U+0427", "", "", "U+0448", "U+0428", "", "",
    "U+0449", "U+0429", "", "", "U+044A", "U+042A", "", "",
    "U+044B", "U+042B", "", "", "U+044C", "U+042C", "", "",
    "U+044D", "U+042D", "", "", "U+044E", "U+042E", "", "",
    "U+044F", "U+042F", "", "", "U+0450", "U+0400", "", "",
    "U+0451", "U+0401", "", "", "U+0452", "U+0402", "", "",
    "U+0453", "U+0403", "", "", "U+0454", "U+0404", "", "",
    "U+0455", "U+0405", "", "", "U+0456", "U+0406", "", "",
    "U+0457", "U+0407", "", "", "U+0458", "U+0408", "", "",
    "U+0459", "U+0409", "", "", "U+045A", "U+040A", "", "",
    "U+045B", "U+040B", "", "", "U+045C", "U+040C", "", "",
    "U+045D", "U+040D", "", "", "U+045E", "U+040E", "", "",
    "U+045F", "U+040F", "", "", "U+0461", "U+0460", "", "",
    "U+0463", "U+0462", "", "", "U+0465", "U+0464", "", "",
    "U+0467", "U+0466", "", "", "U+0469", "U+0468", "", "",
    "U+046B", "U+046A", "", "", "U+046D", "U+046C", "", "",
    "U+046F", "U+046E", "", "", "U+0471", "U+0470", "", "",
    "U+0473", "U+0472", "", "", "U+0475", "U+0474", "", "",
    "U+0477", "U+0476", "", "", "U+0479", "U+0478", "", "",
    "U+047B", "U+047A", "", "", "U+047D", "U+047C", "", "",
    "U+047F", "U+047E", "", "", "U+0481", "U+0480", "", "",
    "U+048B", "U+048A", "", "", "U+048D", "U+048C", "", "",
    "U+048F", "U+048E", "", "", "U+0491", "U+0490", "", "",
    "U+0493", "U+0492", "", "", "U+0495", "U+0494", "", "",
    "U+0497", "U+0496", "", "", "U+0499", "U+0498", "", "",
    "U+049B", "U+049A", "", "", "U+049D", "U+049C", "", "",
    "U+049F", "U+049E", "", "", "U+04A1", "U+04A0", "", "",
    "U+04A3", "U+04A2", "", "", "U+04A5", "U+04A4", "", "",
    "U+04A7", "U+04A6", "", "", "U+04A9", "U+04A8", "", "",
    "U+04AB", "U+04AA", "", "", "U+04AD", "U+04AC", "", "",
    "U+04AF", "U+04AE", "", "", "U+04B1", "U+04B0", "", "",
    "U+04B3", "U+04B2", "", "", "U+04B5", "U+04B4", "", "",
    "U+04B7", "U+04B6", "", "", "U+04B9", "U+04B8", "", "",
    "U+04BB", "U+04BA", "", "", "U+04BD", "U+04BC", "", "",
    "U+04BF", "U+04BE", "", "", "U+04C2", "U+04C1", "", "",
    "U+04C4", "U+04C3", "", "", "U+04C6", "U+04C5", "", "",
    "U+04C8", "U+04C7", "", "", "U+04CA", "U+04C9", "", "",
    "U+04CC", "U+04CB", "", "", "U+04CE", "U+04CD", "", "",
    "U+04CF", "U+04C0", "", "", "U+04D1", "U+04D0", "", "",
    "U+04D3", "U+04D2", "", "", "U+04D5", "U+04D4", "", "",
    "U+04D7", "U+04D6", "", "", "U+04D9", "U+04D8", "", "",
    "U+04DB", "U+04DA", "", "", "U+04DD", "U+04DC", "", "",
    "U+04DF", "U+04DE", "", "", "U+04E1", "U+04E0", "", "",
    "U+04E3", "U+04E2", "", "", "U+04E5", "U+04E4", "", "",
    "U+04E7", "U+04E6", "", "", "U+04E9", "U+04E8", "", "",
    "U+04EB", "U+04EA", "", "", "U+04ED", "U+04EC", "", "",
    "U+04EF", "U+04EE", "", "", "U+04F1", "U+04F0", "", "",
    "U+04F3", "U+04F2", "", "", "U+04F5", "U+04F4", "", "",
    "U+04F7", "U+04F6", "", "", "U+04F9", "U+04F8", "", "",
    "U+04FB", "U+04FA", "", "", "U+04FD", "U+04FC", "", "",
    "U+04FF", "U+04FE", "", "", "U+0501", "U+0500", "", "",
    "U+0503", "U+0502", "", "", "U+0505", "U+0504", "", "",
    "U+0507", "U+0506", "", "", "U+0509", "U+0508", "", "",
    "U+050B", "U+050A", "", "", "U+050D", "U+050C", "", "",
    "U+050F", "U+050E", "", "", "U+0511", "U+0510", "", "",
    "U+0513", "U+0512", "", "", "U+0515", "U+0514", "", "",
    "U+0517", "U+0516", "", "", "U+0519", "U+0518", "", "",
    "U+051B", "U+051A", "", "", "U+051D", "U+051C", "", "",
    "U+051F", "U+051E", "", "", "U+0521", "U+0520", "", "",
    "U+0523", "U+0522", "", "", "U+0525", "U+0524", "", "",
    "U+0527", "U+0526", "", "", "U+0529", "U+0528", "", "",
    "U+052B", "U+052A", "", "", "U+052D", "U+052C", "", "",
    "U+052F", "U+052E", "", "", "U+0561", "U+0531", "", "",
    "U+0562", "U+0532", "", "", "U+0563", "U+0533", "", "",
    "U+0564", "U+0534", "", "", "U+0565", "U+0535", "", "",
    "U+0566", "U+0536", "", "", "U+0567", "U+0537", "", "",
    "U+0568", "U+0538", "", "", "U+0569", "U+0539", "", "",
    "U+056A", "U+053A", "", "", "U+056B", "U+053B", "", "",
    "U+056C", "U+053C", "", "", "U+056D", "U+053D", "", "",
    "U+056E", "U+053E", "", "", "U+056F", "U+053F", "", "",
    "U+0570", "U+0540", "", "", "U+0571", "U+0541", "", "",
    "U+0572", "U+0542", "", "", "U+0573", "U+0543", "", "",
    "U+0574", "U+0544", "", "", "U+0575", "U+0545", "", "",
    "U+0576", "U+0546", "", "", "U+0577", "U+0547", "", "",
    "U+0578", "U+0548", "", "", "U+0579", "U+0549", "", "",
    "U+057A", "U+054A", "", "", "U+057B", "U+054B", "", "",
    "U+057C", "U+054C", "", "", "U+057D", "U+054D", "", "",
    "U+057E", "U+054E", "", "", "U+057F", "U+054F", "", "",
    "U+0580", "U+0550", "", "", "U+0581", "U+0551", "", "",
    "U+0582", "U+0552", "", "", "U+0583", "U+0553", "", "",
    "U+0584", "U+0554", "", "", "U+0585", "U+0555", "", "",
    "U+0586", "U+0556", "", "", "U+0587", "U+0535", "U+0552", "",
    "U+10D0", "U+1C90", "", "", "U+10D1", "U+1C91", "", "",
    "U+10D2", "U+1C92", "", "", "U+10D3", "U+1C93", "", "",
    "U+10D4", "U+1C94", "", "", "U+10D5", "U+1C95", "", "",
    "U+10D6", "U+1C96", "", "", "U+10D7", "U+1C97", "", "",
    "U+10D8", "U+1C98", "", "", "U+10D9", "U+1C99", "", "",
    "U+10DA", "U+1C9A", "", "", "U+10DB", "U+1C9B", "", "",
    "U+10DC", "U+1C9C", "", "", "U+10DD", "U+1C9D", "", "",
    "U+10DE", "U+1C9E", "", "", "U+10DF", "U+1C9F", "", "",
    "U+10E0", "U+1CA0", "", "", "U+10E1", "U+1CA1", "", "",
    "U+10E2", "U+1CA2", "", "", "U+10E3", "U+1CA3", "", "",
    "U+10E4", "U+1CA4", "", "", "U+10E5", "U+1CA5", "", "",
    "U+10E6", "U+1CA6", "", "", "U+10E7", "U+1CA7", "", "",
    "U+10E8", "U+1CA8", "", "", "U+10E9", "U+1CA9", "", "",
    "U+10EA", "U+1CAA", "", "", "U+10EB", "U+1CAB", "", "",
    "U+10EC", "U+1CAC", "", "", "U+10ED", "U+1CAD", "", "",
    "U+10EE", "U+1CAE", "", "", "U+10EF", "U+1CAF", "", "",
    "U+10F0", "U+1CB0", "", "", "U+10F1", "U+1CB1", "", "",
    "U+10F2", "U+1CB2", "", "", "U+10F3", "U+1CB3", "", "",
    "U+10F4", "U+1CB4", "", "", "U+10F5", "U+1CB5", "", "",
    "U+10F6", "U+1CB6", "", "", "U+10F7", "U+1CB7", "", "",
    "U+10F8", "U+1CB8", "", "", "U+10F9", "U+1CB9", "", "",
    "U+10FA", "U+1CBA", "", "", "U+10FD", "U+1CBD", "", "",
    "U+10FE", "U+1CBE", "", "", "U+10FF", "U+1CBF", "", "",
    "U+13F8", "U+13F0", "", "", "U+13F9", "U+13F1", "", "",
    "U+13FA", "U+13F2", "", "", "U+13FB", "U+13F3", "", "",
    "U+13FC", "U+13F4", "", "", "U+13FD", "U+13F5", "", "",
    "U+1C80", "U+0412", "", "", "U+1C81", "U+0414", "", "",
    "U+1C82", "U+041E", "", "", "U+1C83", "U+0421", "", "",
    "U+1C84", "U+0422", "", "", "U+1C85", "U+0422", "", "",
    "U+1C86", "U+042A", "", "", "U+1C87", "U+0462", "", "",
    "U+1C88", "U+A64A", "", "", "U+1C8A", "U+1C89", "", "",
    "U+1D79", "U+A77D", "", "", "U+1D7D", "U+2C63", "", "",
    "U+1D8E", "U+A7C6", "", "", "U+1E01", "U+1E00", "", "",
    "U+1E03", "U+1E02", "", "", "U+1E05", "U+1E04", "", "",
    "U+1E07", "U+1E06", "", "", "U+1E09", "U+1E08", "", "",
    "U+1E0B", "U+1E0A", "", "", "U+1E0D", "U+1E0C", "", "",
    "U+1E0F", "U+1E0E", "", "", "U+1E11", "U+1E10", "", "",
    "U+1E13", "U+1E12", "", "", "U+1E15", "U+1E14", "", "",
    "U+1E17", "U+1E16", "", "", "U+1E19", "U+1E18", "", "",
    "U+1E1B", "U+1E1A", "", "", "U+1E1D", "U+1E1C", "", "",
    "U+1E1F", "U+1E1E", "", "", "U+1E21", "U+1E20", "", "",
    "U+1E23", "U+1E22", "", "", "U+1E25", "U+1E24", "", "",
    "U+1E27", "U+1E26", "", "", "U+1E29", "U+1E28", "", "",
    "U+1E2B", "U+1E2A", "", "", "U+1E2D", "U+1E2C", "", "",
    "U+1E2F", "U+1E2E", "", "", "U+1E31", "U+1E30", "", "",
    "U+1E33", "U+1E32", "", "", "U+1E35", "U+1E34", "", "",
    "U+1E37", "U+1E36", "", "", "U+1E39", "U+1E38", "", "",
    "U+1E3B", "U+1E3A", "", "", "U+1E3D", "U+1E3C", "", "",
    "U+1E3F", "U+1E3E", "", "", "U+1E41", "U+1E40", "", "",
    "U+1E43", "U+1E42", "", "", "U+1E45", "U+1E44", "", "",
    "U+1E47", "U+1E46", "", "", "U+1E49", "U+1E48", "", "",
    "U+1E4B", "U+1E4A", "", "", "U+1E4D", "U+1E4C", "", "",
    "U+1E4F", "U+1E4E", "", "", "U+1E51", "U+1E50", "", "",
    "U+1E53", "U+1E52", "", "", "U+1E55", "U+1E54", "", "",
    "U+1E57", "U+1E56", "", "", "U+1E59", "U+1E58", "", "",
    "U+1E5B", "U+1E5A", "", "", "U+1E5D", "U+1E5C", "", "",
    "U+1E5F", "U+1E5E", "", "", "U+1E61", "U+1E60", "", "",
    "U+1E63", "U+1E62", "", "", "U+1E65", "U+1E64", "", "",
    "U+1E67", "U+1E66", "", "", "U+1E69", "U+1E68", "", "",
    "U+1E6B", "U+1E6A", "", "", "U+1E6D", "U+1E6C", "", "",
    "U+1E6F", "U+1E6E", "", "", "U+1E71", "U+1E70", "", "",
    "U+1E73", "U+1E72", "", "", "U+1E75", "U+1E74", "", "",
    "U+1E77", "U+1E76", "", "", "U+1E79", "U+1E78", "", "",
    "U+1E7B", "U+1E7A", "", "", "U+1E7D", "U+1E7C", "", "",
    "U+1E7F", "U+1E7E", "", "", "U+1E81", "U+1E80", "", "",
    "U+1E83", "U+1E82", "", "", "U+1E85", "U+1E84", "", "",
    "U+1E87", "U+1E86", "", "", "U+1E89", "U+1E88", "", "",
    "U+1E8B", "U+1E8A", "", "", "U+1E8D", "U+1E8C", "", "",
    "U+1E8F", "U+1E8E", "", "", "U+1E91", "U+1E90", "", "",
    "U+1E93", "U+1E92", "", "", "U+1E95", "U+1E94", "", "",
    "U+1E96", "H", "U+0331", "", "U+1E97", "T", "U+0308", "",
    "U+1E98", "W", "U+030A", "", "U+1E99", "Y", "U+030A", "",
    "U+1E9A", "A", "U+02BE", "", "U+1E9B", "U+1E60", "", "",
    "U+1EA1", "U+1EA0", "", "", "U+1EA3", "U+1EA2", "", "",
    "U+1EA5", "U+1EA4", "", "", "U+1EA7", "U+1EA6", "", "",
    "U+1EA9", "U+1EA8", "", "", "U+1EAB", "U+1EAA", "", "",
    "U+1EAD", "U+1EAC", "", "", "U+1EAF", "U+1EAE", "", "",
    "U+1EB1", "U+1EB0", "", "", "U+1EB3", "U+1EB2", "", "",
    "U+1EB5", "U+1EB4", "", "", "U+1EB7", "U+1EB6", "", "",
    "U+1EB9", "U+1EB8", "", "", "U+1EBB", "U+1EBA", "", "",
    "U+1EBD", "U+1EBC", "", "", "U+1EBF", "U+1EBE", "", "",
    "U+1EC1", "U+1EC0", "", "", "U+1EC3", "U+1EC2", "", "",
    "U+1EC5", "U+1EC4", "", "", "U+1EC7", "U+1EC6", "", "",
    "U+1EC9", "U+1EC8", "", "", "U+1ECB", "U+1ECA", "", "",
    "U+1ECD", "U+1ECC", "", "", "U+1ECF", "U+1ECE", "", "",
    "U+1ED1", "U+1ED0", "", "", "U+1ED3", "U+1ED2", "", "",
    "U+1ED5", "U+1ED4", "", "", "U+1ED7", "U+1ED6", "", "",
    "U+1ED9", "U+1ED8", "", "", "U+1EDB", "U+1EDA", "", "",
    "U+1EDD", "U+1EDC", "", "", "U+1EDF", "U+1EDE", "", "",
    "U+1EE1", "U+1EE0", "", "", "U+1EE3", "U+1EE2", "", "",
    "U+1EE5", "U+1EE4", "", "", "U+1EE7", "U+1EE6", "", "",
    "U+1EE9", "U+1EE8", "", "", "U+1EEB", "U+1EEA", "", "",
    "U+1EED", "U+1EEC", "", "", "U+1EEF", "U+1EEE", "", "",
    "U+1EF1", "U+1EF0", "", "", "U+1EF3", "U+1EF2", "", "",
    "U+1EF5", "U+1EF4", "", "", "U+1EF7", "U+1EF6", "", "",
    "U+1EF9", "U+1EF8", "", "", "U+1EFB", "U+1EFA", "", "",
    "U+1EFD", "U+1EFC", "", "", "U+1EFF", "U+1EFE", "", "",
    "U+1F00", "U+1F08", "", "", "U+1F01", "U+1F09", "", "",
    "U+1F02", "U+1F0A", "", "", "U+1F03", "U+1F0B", "", "",
    "U+1F04", "U+1F0C", "", "", "U+1F05", "U+1F0D", "", "",
    "U+1F06", "U+1F0E", "", "", "U+1F07", "U+1F0F", "", "",
    "U+1F10", "U+1F18", "", "", "U+1F11", "U+1F19", "", "",
    "U+1F12", "U+1F1A", "", "", "U+1F13", "U+1F1B", "", "",
    "U+1F14", "U+1F1C", "", "", "U+1F15", "U+1F1D", "", "",
    "U+1F20", "U+1F28", "", "", "U+1F21", "U+1F29", "", "",
    "U+1F22", "U+1F2A", "", "", "U+1F23", "U+1F2B", "", "",
    "U+1F24", "U+1F2C", "", "", "U+1F25", "U+1F2D", "", "",
    "U+1F26", "U+1F2E", "", "", "U+1F27", "U+1F2F", "", "",
    "U+1F30", "U+1F38", "", "", "U+1F31", "U+1F39", "", "",
    "U+1F32", "U+1F3A", "", "", "U+1F33", "U+1F3B", "", "",
    "U+1F34", "U+1F3C", "", "", "U+1F35", "U+1F3D", "", "",
    "U+1F36", "U+1F3E", "", "", "U+1F37", "U+1F3F", "", "",
    "U+1F40", "U+1F48", "", "", "U+1F41", "U+1F49", "", "",
    "U+1F42", "U+1F4A", "", "", "U+1F43", "U+1F4B", "", "",
    "U+1F44", "U+1F4C", "", "", "U+1F45", "U+1F4D", "", "",
    "U+1F50", "U+03A5", "U+0313", "", "U+1F51", "U+1F59", "", "",
    "U+1F52", "U+03A5", "U+0313", "U+0300", "U+1F53", "U+1F5B", "", "",
    "U+1F54", "U+03A5", "U+0313", "U+0301", "U+1F55", "U+1F5D", "", "",
    "U+1F56", "U+03A5", "U+0313", "U+0342", "U+1F57", "U+1F5F", "", "",
    "U+1F60", "U+1F68", "", "", "U+1F61", "U+1F69", "", "",
    "U+1F62", "U+1F6A", "", "", "U+1F63", "U+1F6B", "", "",
    "U+1F64", "U+1F6C", "", "", "U+1F65", "U+1F6D", "", "",
    "U+1F66", "U+1F6E", "", "", "U+1F67", "U+1F6F", "", "",
    "U+1F70", "U+1FBA", "", "", "U+1F71", "U+1FBB", "", "",
    "U+1F72", "U+1FC8", "", "", "U+1F73", "U+1FC9", "", "",
    "U+1F74", "U+1FCA", "", "", "U+1F75", "U+1FCB", "", "",
    "U+1F76", "U+1FDA", "", "", "U+1F77", "U+1FDB", "", "",
    "U+1F78", "U+1FF8", "", "", "U+1F79", "U+1FF9", "", "",
    "U+1F7A", "U+1FEA", "", "", "U+1F7B", "U+1FEB", "", "",
    "U+1F7C", "U+1FFA", "", "", "U+1F7D", "U+1FFB", "", "",
    "U+1F80", "U+1F08", "U+0399", "", "U+1F81", "U+1F09", "U+0399", "",
    "U+1F82", "U+1F0A", "U+0399", "", "U+1F83", "U+1F0B", "U+0399", "",
    "U+1F84", "U+1F0C", "U+0399", "", "U+1F85", "U+1F0D", "U+0399", "",
    "U+1F86", "U+1F0E", "U+0399", "", "U+1F87", "U+1F0F", "U+0399", "",
    "U+1F88", "U+1F08", "U+0399", "", "U+1F89", "U+1F09", "U+0399", "",
    "U+1F8A", "U+1F0A", "U+0399", "", "U+1F8B", "U+1F0B", "U+0399", "",
    "U+1F8C", "U+1F0C", "U+0399", "", "U+1F8D", "U+1F0D", "U+0399", "",
    "U+1F8E", "U+1F0E", "U+0399", "", "U+1F8F", "U+1F0F", "U+0399", "",
    "U+1F90", "U+1F28", "U+0399", "", "U+1F91", "U+1F29", "U+0399", "",
    "U+1F92", "U+1F2A", "U+0399", "", "U+1F93", "U+1F2B", "U+0399", "",
    "U+1F94", "U+1F2C", "U+0399", "", "U+1F95", "U+1F2D", "U+0399", "",
    "U+1F96", "U+1F2E", "U+0399", "", "U+1F97", "U+1F2F", "U+0399", "",
    "U+1F98", "U+1F28", "U+0399", "", "U+1F99", "U+1F29", "U+0399", "",
    "U+1F9A", "U+1F2A", "U+0399", "", "U+1F9B", "U+1F2B", "U+0399", "",
    "U+1F9C", "U+1F2C", "U+0399", "", "U+1F9D", "U+1F2D", "U+0399", "",
    "U+1F9E", "U+1F2E", "U+0399", "", "U+1F9F", "U+1F2F", "U+0399", "",
    "U+1FA0", "U+1F68", "U+0399", "", "U+1FA1", "U+1F69", "U+0399", "",
    "U+1FA2", "U+1F6A", "U+0399", "", "U+1FA3", "U+1F6B", "U+0399", "",
    "U+1FA4", "U+1F6C", "U+0399", "", "U+1FA5", "U+1F6D", "U+0399", "",
    "U+1FA6", "U+1F6E", "U+0399", "", "U+1FA7", "U+1F6F", "U+0399", "",
    "U+1FA8", "U+1F68", "U+0399", "", "U+1FA9", "U+1F69", "U+0399", "",
    "U+1FAA", "U+1F6A", "U+0399", "", "U+1FAB", "U+1F6B", "U+0399", "",
    "U+1FAC", "U+1F6C", "U+0399", "", "U+1FAD", "U+1F6D", "U+0399", "",
    "U+1FAE", "U+1F6E", "U+0399", "", "U+1FAF", "U+1F6F", "U+0399", "",
    "U+1FB0", "U+1FB8", "", "", "U+1FB1", "U+1FB9", "", "",
    "U+1FB2", "U+1FBA", "U+0399", "", "U+1FB3", "U+0391", "U+0399", "",
    "U+1FB4", "U+0386", "U+0399", "", "U+1FB6", "U+0391", "U+0342", "",
    "U+1FB7", "U+0391", "U+0342", "U+0399", "U+1FBC", "U+0391", "U+0399", "",
    "U+1FBE", "U+0399", "", "", "U+1FC2", "U+1FCA", "U+0399", "",
    "U+1FC3", "U+0397", "U+0399", "", "U+1FC4", "U+0389", "U+0399", "",
    "U+1FC6", "U+0397", "U+0342", "", "U+1FC7", "U+0397", "U+0342", "U+0399",
    "U+1FCC", "U+0397", "U+0399", "", "U+1FD0", "U+1FD8", "", "",
    "U+1FD1", "U+1FD9", "", "", "U+1FD2", "U+0399", "U+0308", "U+0300",
    "U+1FD3", "U+0399", "U+0308", "U+0301", "U+1FD6", "U+0399", "U+0342", "",
    "U+1FD7", "U+0399", "U+0308", "U+0342", "U+1FE0", "U+1FE8", "", "",
    "U+1FE1", "U+1FE9", "", "", "U+1FE2", "U+03A5", "U+0308", "U+0300",
    "U+1FE3", "U+03A5", "U+0308", "U+0301", "U+1FE4", "U+03A1", "U+0313", "",
    "U+1FE5", "U+1FEC", "", "", "U+1FE6", "U+03A5", "U+0342", "",
    "U+1FE7", "U+03A5", "U+0308", "U+0342", "U+1FF2", "U+1FFA", "U+0399", "",
    "U+1FF3", "U+03A9", "U+0399", "", "U+1FF4", "U+038F", "U+0399", "",
    "U+1FF6", "U+03A9", "U+0342", "", "U+1FF7", "U+03A9", "U+0342", "U+0399",
    "U+1FFC", "U+03A9", "U+0399", "", "U+214E", "U+2132", "", "",
    "U+2170", "U+2160", "", "", "U+2171", "U+2161", "", "",
    "U+2172", "U+2162", "", "", "U+2173", "U+2163", "", "",
    "U+2174", "U+2164", "", "", "U+2175", "U+2165", "", "",
    "U+2176", "U+2166", "", "", "U+2177", "U+2167", "", "",
    "U+2178", "U+2168", "", "", "U+2179", "U+2169", "", "",
    "U+217A", "U+216A", "", "", "U+217B", "U+216B", "", "",
    "U+217C", "U+216C", "", "", "U+217D", "U+216D", "", "",
    "U+217E", "U+216E", "", "", "U+217F", "U+216F", "", "",
    "U+2184", "U+2183", "", "", "U+24D0", "U+24B6", "", "",
    "U+24D1", "U+24B7", "", "", "U+24D2", "U+24B8", "", "",
    "U+24D3", "U+24B9", "", "", "U+24D4", "U+24BA", "", "",
    "U+24D5", "U+24BB", "", "", "U+24D6", "U+24BC", "", "",
    "U+24D7", "U+24BD", "", "", "U+24D8", "U+24BE", "", "",
    "U+24D9", "U+24BF", "", "", "U+24DA", "U+24C0", "", "",
    "U+24DB", "U+24C1", "", "", "U+24DC", "U+24C2", "", "",
    "U+24DD", "U+24C3", "", "", "U+24DE", "U+24C4", "", "",
    "U+24DF", "U+24C5", "", "", "U+24E0", "U+24C6", "", "",
    "U+24E1", "U+24C7", "", "", "U+24E2", "U+24C8", "", "",
    "U+24E3", "U+24C9", "", "", "U+24E4", "U+24CA", "", "",
    "U+24E5", "U+24CB", "", "", "U+24E6", "U+24CC", "", "",
    "U+24E7", "U+24CD", "", "", "U+24E8", "U+24CE", "", "",
    "U+24E9", "U+24CF", "", "", "U+2C30", "U+2C00", "", "",
    "U+2C31", "U+2C01", "", "", "U+2C32", "U+2C02", "", "",
    "U+2C33", "U+2C03", "", "", "U+2C34", "U+2C04", "", "",
    "U+2C35", "U+2C05", "", "", "U+2C36", "U+2C06", "", "",
    "U+2C37", "U+2C07", "", "", "U+2C38", "U+2C08", "", "",
    "U+2C39", "U+2C09", "", "", "U+2C3A", "U+2C0A", "", "",
    "U+2C3B", "U+2C0B", "", "", "U+2C3C", "U+2C0C", "", "",
    "U+2C3D", "U+2C0D", "", "", "U+2C3E", "U+2C0E", "", "",
    "U+2C3F", "U+2C0F", "", "", "U+2C40", "U+2C10", "", "",
    "U+2C41", "U+2C11", "", "", "U+2C42", "U+2C12", "", "",
    "U+2C43", "U+2C13", "", "", "U+2C44", "U+2C14", "", "",
    "U+2C45", "U+2C15", "", "", "U+2C46", "U+2C16", "", "",
    "U+2C47", "U+2C17", "", "", "U+2C48", "U+2C18", "", "",
    "U+2C49", "U+2C19", "", "", "U+2C4A", "U+2C1A", "", "",
    "U+2C4B", "U+2C1B", "", "", "U+2C4C", "U+2C1C", "", "",
    "U+2C4D", "U+2C1D", "", "", "U+2C4E", "U+2C1E", "", "",
    "U+2C4F", "U+2C1F", "", "", "U+2C50", "U+2C20", "", "",
    "U+2C51", "U+2C21", "", "", "U+2C52", "U+2C22", "", "",
    "U+2C53", "U+2C23", "", "", "U+2C54", "U+2C24", "", "",
    "U+2C55", "U+2C25", "", "", "U+2C56", "U+2C26", "", "",
    "U+2C57", "U+2C27", "", "", "U+2C58", "U+2C28", "", "",
    "U+2C59", "U+2C29", "", "", "U+2C5A", "U+2C2A", "", "",
    "U+2C5B", "U+2C2B", "", "", "U+2C5C", "U+2C2C", "", "",
    "U+2C5D", "U+2C2D", "", "", "U+2C5E", "U+2C2E", "", "",
    "U+2C5F", "U+2C2F", "", "", "U+2C61", "U+2C60", "", "",
    "U+2C65", "U+023A", "", "", "U+2C66", "U+023E", "", "",
    "U+2C68", "U+2C67", "", "", "U+2C6A", "U+2C69", "", "",
    "U+2C6C", "U+2C6B", "", "", "U+2C73", "U+2C72", "", "",
    "U+2C76", "U+2C75", "", "", "U+2C81", "U+2C80", "", "",
    "U+2C83", "U+2C82", "", "", "U+2C85", "U+2C84", "", "",
    "U+2C87", "U+2C86", "", "", "U+2C89", "U+2C88", "", "",
    "U+2C8B", "U+2C8A", "", "", "U+2C8D", "U+2C8C", "", "",
    "U+2C8F", "U+2C8E", "", "", "U+2C91", "U+2C90", "", "",
    "U+2C93", "U+2C92", "", "", "U+2C95", "U+2C94", "", "",
    "U+2C97", "U+2C96", "", "", "U+2C99", "U+2C98", "", "",
    "U+2C9B", "U+2C9A", "", "", "U+2C9D", "U+2C9C", "", "",
    "U+2C9F", "U+2C9E", "", "", "U+2CA1", "U+2CA0", "", "",
    "U+2CA3", "U+2CA2", "", "", "U+2CA5", "U+2CA4", "", "",
    "U+2CA7", "U+2CA6", "", "", "U+2CA9", "U+2CA8", "", "",
    "U+2CAB", "U+2CAA", "", "", "U+2CAD", "U+2CAC", "", "",
    "U+2CAF", "U+2CAE", "", "", "U+2CB1", "U+2CB0", "", "",
    "U+2CB3", "U+2CB2", "", "", "U+2CB5", "U+2CB4", "", "",
    "U+2CB7", "U+2CB6", "", "", "U+2CB9", "U+2CB8", "", "",
    "U+2CBB", "U+2CBA", "", "", "U+2CBD", "U+2CBC", "", "",
    "U+2CBF", "U+2CBE", "", "", "U+2CC1", "U+2CC0", "", "",
    "U+2CC3", "U+2CC2", "", "", "U+2CC5", "U+2CC4", "", "",
    "U+2CC7", "U+2CC6", "", "", "U+2CC9", "U+2CC8", "", "",
    "U+2CCB", "U+2CCA", "", "", "U+2CCD", "U+2CCC", "", "",
    "U+2CCF", "U+2CCE", "", "", "U+2CD1", "U+2CD0", "", "",
    "U+2CD3", "U+2CD2", "", "", "U+2CD5", "U+2CD4", "", "",
    "U+2CD7", "U+2CD6", "", "", "U+2CD9", "U+2CD8", "", "",
    "U+2CDB", "U+2CDA", "", "", "U+2CDD", "U+2CDC", "", "",
    "U+2CDF", "U+2CDE", "", "", "U+2CE1", "U+2CE0", "", "",
    "U+2CE3", "U+2CE2", "", "", "U+2CEC", "U+2CEB", "", "",
    "U+2CEE", "U+2CED", "", "", "U+2CF3", "U+2CF2", "", "",
    "U+2D00", "U+10A0", "", "", "U+2D01", "U+10A1", "", "",
    "U+2D02", "U+10A2", "", "", "U+2D03", "U+10A3", "", "",
    "U+2D04", "U+10A4", "", "", "U+2D05", "U+10A5", "", "",
    "U+2D06", "U+10A6", "", "", "U+2D07", "U+10A7", "", "",
    "U+2D08", "U+10A8", "", "", "U+2D09", "U+10A9", "", "",
    "U+2D0A", "U+10AA", "", "", "U+2D0B", "U+10AB", "", "",
    "U+2D0C", "U+10AC", "", "", "U+2D0D", "U+10AD", "", "",
    "U+2D0E", "U+10AE", "", "", "U+2D0F", "U+10AF", "", "",
    "U+2D10", "U+10B0", "", "", "U+2D11", "U+10B1", "", "",
    "U+2D12", "U+10B2", "", "", "U+2D13", "U+10B3", "", "",
    "U+2D14", "U+10B4", "", "", "U+2D15", "U+10B5", "", "",
    "U+2D16", "U+10B6", "", "", "U+2D17", "U+10B7", "", "",
    "U+2D18", "U+10B8", "", "", "U+2D19", "U+10B9", "", "",
    "U+2D1A", "U+10BA", "", "", "U+2D1B", "U+10BB", "", "",
    "U+2D1C", "U+10BC", "", "", "U+2D1D", "U+10BD", "", "",
    "U+2D1E", "U+10BE", "", "", "U+2D1F", "U+10BF", "", "",
    "U+2D20", "U+10C0", "", "", "U+2D21", "U+10C1", "", "",
    "U+2D22", "U+10C2", "", "", "U+2D23", "U+10C3", "", "",
    "U+2D24", "U+10C4", "", "", "U+2D25", "U+10C5", "", "",
    "U+2D27", "U+10C7", "", "", "U+2D2D", "U+10CD", "", "",
    "U+A641", "U+A640", "", "", "U+A643", "U+A642", "", "",
    "U+A645", "U+A644", "", "", "U+A647", "U+A646", "", "",
    "U+A649", "U+A648", "", "", "U+A64B", "U+A64A", "", "",
    "U+A64D", "U+A64C", "", "", "U+A64F", "U+A64E", "", "",
    "U+A651", "U+A650", "", "", "U+A653", "U+A652", "", "",
    "U+A655", "U+A654", "", "", "U+A657", "U+A656", "", "",
    "U+A659", "U+A658", "", "", "U+A65B", "U+A65A", "", "",
    "U+A65D", "U+A65C", "", "", "U+A65F", "U+A65E", "", "",
    "U+A661", "U+A660", "", "", "U+A663", "U+A662", "", "",
    "U+A665", "U+A664", "", "", "U+A667", "U+A666", "", "",
    "U+A669", "U+A668", "", "", "U+A66B", "U+A66A", "", "",
    "U+A66D", "U+A66C", "", "", "U+A681", "U+A680", "", "",
    "U+A683", "U+A682", "", "", "U+A685", "U+A684", "", "",
    "U+A687", "U+A686", "", "", "U+A689", "U+A688", "", "",
    "U+A68B", "U+A68A", "", "", "U+A68D", "U+A68C", "", "",
    "U+A68F", "U+A68E", "", "", "U+A691", "U+A690", "", "",
    "U+A693", "U+A692", "", "", "U+A695", "U+A694", "", "",
    "U+A697", "U+A696", "", "", "U+A699", "U+A698", "", "",
    "U+A69B", "U+A69A", "", "", "U+A723", "U+A722", "", "",
    "U+A725", "U+A724", "", "", "U+A727", "U+A726", "", "",
    "U+A729", "U+A728", "", "", "U+A72B", "U+A72A", "", "",
    "U+A72D", "U+A72C", "", "", "U+A72F", "U+A72E", "", "",
    "U+A733", "U+A732", "", "", "U+A735", "U+A734", "", "",
    "U+A737", "U+A736", "", "", "U+A739", "U+A738", "", "",
    "U+A73B", "U+A73A", "", "", "U+A73D", "U+A73C", "", "",
    "U+A73F", "U+A73E", "", "", "U+A741", "U+A740", "", "",
    "U+A743", "U+A742", "", "", "U+A745", "U+A744", "", "",
    "U+A747", "U+A746", "", "", "U+A749", "U+A748", "", "",
    "U+A74B", "U+A74A", "", "", "U+A74D", "U+A74C", "", "",
    "U+A74F", "U+A74E", "", "", "U+A751", "U+A750", "", "",
    "U+A753", "U+A752", "", "", "U+A755", "U+A754", "", "",
    "U+A757", "U+A756", "", "", "U+A759", "U+A758", "", "",
    "U+A75B", "U+A75A", "", "", "U+A75D", "U+A75C", "", "",
    "U+A75F", "U+A75E", "", "", "U+A761", "U+A760", "", "",
    "U+A763", "U+A762", "", "", "U+A765", "U+A764", "", "",
    "U+A767", "U+A766", "", "", "U+A769", "U+A768", "", "",
    "U+A76B", "U+A76A", "", "", "U+A76D", "U+A76C", "", "",
    "U+A76F", "U+A76E", "", "", "U+A77A", "U+A779", "", "",
    "U+A77C", "U+A77B", "", "", "U+A77F", "U+A77E", "", "",
    "U+A781", "U+A780", "", "", "U+A783", "U+A782", "", "",
    "U+A785", "U+A784", "", "", "U+A787", "U+A786", "", "",
    "U+A78C", "U+A78B", "", "", "U+A791", "U+A790", "", "",
    "U+A793", "U+A792", "", "", "U+A794", "U+A7C4", "", "",
    "U+A797", "U+A796", "", "", "U+A799", "U+A798", "", "",
    "U+A79B", "U+A79A", "", "", "U+A79D", "U+A79C", "", "",
    "U+A79F", "U+A79E", "", "", "U+A7A1", "U+A7A0", "", "",
    "U+A7A3", "U+A7A2", "", "", "U+A7A5", "U+A7A4", "", "",
    "U+A7A7", "U+A7A6", "", "", "U+A7A9", "U+A7A8", "", "",
    "U+A7B5", "U+A7B4", "", "", "U+A7B7", "U+A7B6", "", "",
    "U+A7B9", "U+A7B8", "", "", "U+A7BB", "U+A7BA", "", "",
    "U+A7BD", "U+A7BC", "", "", "U+A7BF", "U+A7BE", "", "",
    "U+A7C1", "U+A7C0", "", "", "U+A7C3", "U+A7C2", "", "",
    "U+A7C8", "U+A7C7", "", "", "U+A7CA", "U+A7C9", "", "",
    "U+A7CD", "U+A7CC", "", "", "U+A7CF", "U+A7CE", "", "",
    "U+A7D1", "U+A7D0", "", "", "U+A7D3", "U+A7D2", "", "",
    "U+A7D5", "U+A7D4", "", "", "U+A7D7", "U+A7D6", "", "",
    "U+A7D9", "U+A7D8", "", "", "U+A7DB", "U+A7DA", "", "",
    "U+A7F6", "U+A7F5", "", "", "U+AB53", "U+A7B3", "", "",
    "U+AB70", "U+13A0", "", "", "U+AB71", "U+13A1", "", "",
    "U+AB72", "U+13A2", "", "", "U+AB73", "U+13A3", "", "",
    "U+AB74", "U+13A4", "", "", "U+AB75", "U+13A5", "", "",
    "U+AB76", "U+13A6", "", "", "U+AB77", "U+13A7", "", "",
    "U+AB78", "U+13A8", "", "", "U+AB79", "U+13A9", "", "",
    "U+AB7A", "U+13AA", "", "", "U+AB7B", "U+13AB", "", "",
    "U+AB7C", "U+13AC", "", "", "U+AB7D", "U+13AD", "", "",
    "U+AB7E", "U+13AE", "", "", "U+AB7F", "U+13AF", "", "",
    "U+AB80", "U+13B0", "", "", "U+AB81", "U+13B1", "", "",
    "U+AB82", "U+13B2", "", "", "U+AB83", "U+13B3", "", "",
    "U+AB84", "U+13B4", "", "", "U+AB85", "U+13B5", "", "",
    "U+AB86", "U+13B6", "", "", "U+AB87", "U+13B7", "", "",
    "U+AB88", "U+13B8", "", "", "U+AB89", "U+13B9", "", "",
    "U+AB8A", "U+13BA", "", "", "U+AB8B", "U+13BB", "", "",
    "U+AB8C", "U+13BC", "", "", "U+AB8D", "U+13BD", "", "",
    "U+AB8E", "U+13BE", "", "", "U+AB8F", "U+13BF", "", "",
    "U+AB90", "U+13C0", "", "", "U+AB91", "U+13C1", "", "",
    "U+AB92", "U+13C2", "", "", "U+AB93", "U+13C3", "", "",
    "U+AB94", "U+13C4", "", "", "U+AB95", "U+13C5", "", "",
    "U+AB96", "U+13C6", "", "", "U+AB97", "U+13C7", "", "",
    "U+AB98", "U+13C8", "", "", "U+AB99", "U+13C9", "", "",
    "U+AB9A", "U+13CA", "", "", "U+AB9B", "U+13CB", "", "",
    "U+AB9C", "U+13CC", "", "", "U+AB9D", "U+13CD", "", "",
    "U+AB9E", "U+13CE", "", "", "U+AB9F", "U+13CF", "", "",
    "U+ABA0", "U+13D0", "", "", "U+ABA1", "U+13D1", "", "",
    "U+ABA2", "U+13D2", "", "", "U+ABA3", "U+13D3", "", "",
    "U+ABA4", "U+13D4", "", "", "U+ABA5", "U+13D5", "", "",
    "U+ABA6", "U+13D6", "", "", "U+ABA7", "U+13D7", "", "",
    "U+ABA8", "U+13D8", "", "", "U+ABA9", "U+13D9", "", "",
    "U+ABAA", "U+13DA", "", "", "U+ABAB", "U+13DB", "", "",
    "U+ABAC", "U+13DC", "", "", "U+ABAD", "U+13DD", "", "",
    "U+ABAE", "U+13DE", "", "", "U+ABAF", "U+13DF", "", "",
    "U+ABB0", "U+13E0", "", "", "U+ABB1", "U+13E1", "", "",
    "U+ABB2", "U+13E2", "", "", "U+ABB3", "U+13E3", "", "",
    "U+ABB4", "U+13E4", "", "", "U+ABB5", "U+13E5", "", "",
    "U+ABB6", "U+13E6", "", "", "U+ABB7", "U+13E7", "", "",
    "U+ABB8", "U+13E8", "", "", "U+ABB9", "U+13E9", "", "",
    "U+ABBA", "U+13EA", "", "", "U+ABBB", "U+13EB", "", "",
    "U+ABBC", "U+13EC", "", "", "U+ABBD", "U+13ED", "", "",
    "U+ABBE", "U+13EE", "", "", "U+ABBF", "U+13EF", "", "",
    "U+FB00", "F", "F", "", "U+FB01", "F", "I", "", "U+FB02", "F", "L", "",
    "U+FB03", "F", "F", "I", "U+FB04", "F", "F", "L", "U+FB05", "S", "T", "",
    "U+FB06", "S", "T", "", "U+FB13", "U+0544", "U+0546", "",
    "U+FB14", "U+0544", "U+0535", "", "U+FB15", "U+0544", "U+053B", "",
    "U+FB16", "U+054E", "U+0546", "", "U+FB17", "U+0544", "U+053D", "",
    "U+FF41", "U+FF21", "", "", "U+FF42", "U+FF22", "", "",
    "U+FF43", "U+FF23", "", "", "U+FF44", "U+FF24", "", "",
    "U+FF45", "U+FF25", "", "", "U+FF46", "U+FF26", "", "",
    "U+FF47", "U+FF27", "", "", "U+FF48", "U+FF28", "", "",
    "U+FF49", "U+FF29", "", "", "U+FF4A", "U+FF2A", "", "",
    "U+FF4B", "U+FF2B", "", "", "U+FF4C", "U+FF2C", "", "",
    "U+FF4D", "U+FF2D", "", "", "U+FF4E", "U+FF2E", "", "",
    "U+FF4F", "U+FF2F", "", "", "U+FF50", "U+FF30", "", "",
    "U+FF51", "U+FF31", "", "", "U+FF52", "U+FF32", "", "",
    "U+FF53", "U+FF33", "", "", "U+FF54", "U+FF34", "", "",
    "U+FF55", "U+FF35", "", "", "U+FF56", "U+FF36", "", "",
    "U+FF57", "U+FF37", "", "", "U+FF58", "U+FF38", "", "",
    "U+FF59", "U+FF39", "", "", "U+FF5A", "U+FF3A", "", "",
    "U+D801U+DC28", "U+D801", "U+DC00", "",
    "U+D801U+DC29", "U+D801", "U+DC01", "",
    "U+D801U+DC2A", "U+D801", "U+DC02", "",
    "U+D801U+DC2B", "U+D801", "U+DC03", "",
    "U+D801U+DC2C", "U+D801", "U+DC04", "",
    "U+D801U+DC2D", "U+D801", "U+DC05", "",
    "U+D801U+DC2E", "U+D801", "U+DC06", "",
    "U+D801U+DC2F", "U+D801", "U+DC07", "",
    "U+D801U+DC30", "U+D801", "U+DC08", "",
    "U+D801U+DC31", "U+D801", "U+DC09", "",
    "U+D801U+DC32", "U+D801", "U+DC0A", "",
    "U+D801U+DC33", "U+D801", "U+DC0B", "",
    "U+D801U+DC34", "U+D801", "U+DC0C", "",
    "U+D801U+DC35", "U+D801", "U+DC0D", "",
    "U+D801U+DC36", "U+D801", "U+DC0E", "",
    "U+D801U+DC37", "U+D801", "U+DC0F", "",
    "U+D801U+DC38", "U+D801", "U+DC10", "",
    "U+D801U+DC39", "U+D801", "U+DC11", "",
    "U+D801U+DC3A", "U+D801", "U+DC12", "",
    "U+D801U+DC3B", "U+D801", "U+DC13", "",
    "U+D801U+DC3C", "U+D801", "U+DC14", "",
    "U+D801U+DC3D", "U+D801", "U+DC15", "",
    "U+D801U+DC3E", "U+D801", "U+DC16", "",
    "U+D801U+DC3F", "U+D801", "U+DC17", "",
    "U+D801U+DC40", "U+D801", "U+DC18", "",
    "U+D801U+DC41", "U+D801", "U+DC19", "",
    "U+D801U+DC42", "U+D801", "U+DC1A", "",
    "U+D801U+DC43", "U+D801", "U+DC1B", "",
    "U+D801U+DC44", "U+D801", "U+DC1C", "",
    "U+D801U+DC45", "U+D801", "U+DC1D", "",
    "U+D801U+DC46", "U+D801", "U+DC1E", "",
    "U+D801U+DC47", "U+D801", "U+DC1F", "",
    "U+D801U+DC48", "U+D801", "U+DC20", "",
    "U+D801U+DC49", "U+D801", "U+DC21", "",
    "U+D801U+DC4A", "U+D801", "U+DC22", "",
    "U+D801U+DC4B", "U+D801", "U+DC23", "",
    "U+D801U+DC4C", "U+D801", "U+DC24", "",
    "U+D801U+DC4D", "U+D801", "U+DC25", "",
    "U+D801U+DC4E", "U+D801", "U+DC26", "",
    "U+D801U+DC4F", "U+D801", "U+DC27", "",
    "U+D801U+DCD8", "U+D801", "U+DCB0", "",
    "U+D801U+DCD9", "U+D801", "U+DCB1", "",
    "U+D801U+DCDA", "U+D801", "U+DCB2", "",
    "U+D801U+DCDB", "U+D801", "U+DCB3", "",
    "U+D801U+DCDC", "U+D801", "U+DCB4", "",
    "U+D801U+DCDD", "U+D801", "U+DCB5", "",
    "U+D801U+DCDE", "U+D801", "U+DCB6", "",
    "U+D801U+DCDF", "U+D801", "U+DCB7", "",
    "U+D801U+DCE0", "U+D801", "U+DCB8", "",
    "U+D801U+DCE1", "U+D801", "U+DCB9", "",
    "U+D801U+DCE2", "U+D801", "U+DCBA", "",
    "U+D801U+DCE3", "U+D801", "U+DCBB", "",
    "U+D801U+DCE4", "U+D801", "U+DCBC", "",
    "U+D801U+DCE5", "U+D801", "U+DCBD", "",
    "U+D801U+DCE6", "U+D801", "U+DCBE", "",
    "U+D801U+DCE7", "U+D801", "U+DCBF", "",
    "U+D801U+DCE8", "U+D801", "U+DCC0", "",
    "U+D801U+DCE9", "U+D801", "U+DCC1", "",
    "U+D801U+DCEA", "U+D801", "U+DCC2", "",
    "U+D801U+DCEB", "U+D801", "U+DCC3", "",
    "U+D801U+DCEC", "U+D801", "U+DCC4", "",
    "U+D801U+DCED", "U+D801", "U+DCC5", "",
    "U+D801U+DCEE", "U+D801", "U+DCC6", "",
    "U+D801U+DCEF", "U+D801", "U+DCC7", "",
    "U+D801U+DCF0", "U+D801", "U+DCC8", "",
    "U+D801U+DCF1", "U+D801", "U+DCC9", "",
    "U+D801U+DCF2", "U+D801", "U+DCCA", "",
    "U+D801U+DCF3", "U+D801", "U+DCCB", "",
    "U+D801U+DCF4", "U+D801", "U+DCCC", "",
    "U+D801U+DCF5", "U+D801", "U+DCCD", "",
    "U+D801U+DCF6", "U+D801", "U+DCCE", "",
    "U+D801U+DCF7", "U+D801", "U+DCCF", "",
    "U+D801U+DCF8", "U+D801", "U+DCD0", "",
    "U+D801U+DCF9", "U+D801", "U+DCD1", "",
    "U+D801U+DCFA", "U+D801", "U+DCD2", "",
    "U+D801U+DCFB", "U+D801", "U+DCD3", "",
    "U+D801U+DD97", "U+D801", "U+DD70", "",
    "U+D801U+DD98", "U+D801", "U+DD71", "",
    "U+D801U+DD99", "U+D801", "U+DD72", "",
    "U+D801U+DD9A", "U+D801", "U+DD73", "",
    "U+D801U+DD9B", "U+D801", "U+DD74", "",
    "U+D801U+DD9C", "U+D801", "U+DD75", "",
    "U+D801U+DD9D", "U+D801", "U+DD76", "",
    "U+D801U+DD9E", "U+D801", "U+DD77", "",
    "U+D801U+DD9F", "U+D801", "U+DD78", "",
    "U+D801U+DDA0", "U+D801", "U+DD79", "",
    "U+D801U+DDA1", "U+D801", "U+DD7A", "",
    "U+D801U+DDA3", "U+D801", "U+DD7C", "",
    "U+D801U+DDA4", "U+D801", "U+DD7D", "",
    "U+D801U+DDA5", "U+D801", "U+DD7E", "",
    "U+D801U+DDA6", "U+D801", "U+DD7F", "",
    "U+D801U+DDA7", "U+D801", "U+DD80", "",
    "U+D801U+DDA8", "U+D801", "U+DD81", "",
    "U+D801U+DDA9", "U+D801", "U+DD82", "",
    "U+D801U+DDAA", "U+D801", "U+DD83", "",
    "U+D801U+DDAB", "U+D801", "U+DD84", "",
    "U+D801U+DDAC", "U+D801", "U+DD85", "",
    "U+D801U+DDAD", "U+D801", "U+DD86", "",
    "U+D801U+DDAE", "U+D801", "U+DD87", "",
    "U+D801U+DDAF", "U+D801", "U+DD88", "",
    "U+D801U+DDB0", "U+D801", "U+DD89", "",
    "U+D801U+DDB1", "U+D801", "U+DD8A", "",
    "U+D801U+DDB3", "U+D801", "U+DD8C", "",
    "U+D801U+DDB4", "U+D801", "U+DD8D", "",
    "U+D801U+DDB5", "U+D801", "U+DD8E", "",
    "U+D801U+DDB6", "U+D801", "U+DD8F", "",
    "U+D801U+DDB7", "U+D801", "U+DD90", "",
    "U+D801U+DDB8", "U+D801", "U+DD91", "",
    "U+D801U+DDB9", "U+D801", "U+DD92", "",
    "U+D801U+DDBB", "U+D801", "U+DD94", "",
    "U+D801U+DDBC", "U+D801", "U+DD95", "",
    "U+D803U+DCC0", "U+D803", "U+DC80", "",
    "U+D803U+DCC1", "U+D803", "U+DC81", "",
    "U+D803U+DCC2", "U+D803", "U+DC82", "",
    "U+D803U+DCC3", "U+D803", "U+DC83", "",
    "U+D803U+DCC4", "U+D803", "U+DC84", "",
    "U+D803U+DCC5", "U+D803", "U+DC85", "",
    "U+D803U+DCC6", "U+D803", "U+DC86", "",
    "U+D803U+DCC7", "U+D803", "U+DC87", "",
    "U+D803U+DCC8", "U+D803", "U+DC88", "",
    "U+D803U+DCC9", "U+D803", "U+DC89", "",
    "U+D803U+DCCA", "U+D803", "U+DC8A", "",
    "U+D803U+DCCB", "U+D803", "U+DC8B", "",
    "U+D803U+DCCC", "U+D803", "U+DC8C", "",
    "U+D803U+DCCD", "U+D803", "U+DC8D", "",
    "U+D803U+DCCE", "U+D803", "U+DC8E", "",
    "U+D803U+DCCF", "U+D803", "U+DC8F", "",
    "U+D803U+DCD0", "U+D803", "U+DC90", "",
    "U+D803U+DCD1", "U+D803", "U+DC91", "",
    "U+D803U+DCD2", "U+D803", "U+DC92", "",
    "U+D803U+DCD3", "U+D803", "U+DC93", "",
    "U+D803U+DCD4", "U+D803", "U+DC94", "",
    "U+D803U+DCD5", "U+D803", "U+DC95", "",
    "U+D803U+DCD6", "U+D803", "U+DC96", "",
    "U+D803U+DCD7", "U+D803", "U+DC97", "",
    "U+D803U+DCD8", "U+D803", "U+DC98", "",
    "U+D803U+DCD9", "U+D803", "U+DC99", "",
    "U+D803U+DCDA", "U+D803", "U+DC9A", "",
    "U+D803U+DCDB", "U+D803", "U+DC9B", "",
    "U+D803U+DCDC", "U+D803", "U+DC9C", "",
    "U+D803U+DCDD", "U+D803", "U+DC9D", "",
    "U+D803U+DCDE", "U+D803", "U+DC9E", "",
    "U+D803U+DCDF", "U+D803", "U+DC9F", "",
    "U+D803U+DCE0", "U+D803", "U+DCA0", "",
    "U+D803U+DCE1", "U+D803", "U+DCA1", "",
    "U+D803U+DCE2", "U+D803", "U+DCA2", "",
    "U+D803U+DCE3", "U+D803", "U+DCA3", "",
    "U+D803U+DCE4", "U+D803", "U+DCA4", "",
    "U+D803U+DCE5", "U+D803", "U+DCA5", "",
    "U+D803U+DCE6", "U+D803", "U+DCA6", "",
    "U+D803U+DCE7", "U+D803", "U+DCA7", "",
    "U+D803U+DCE8", "U+D803", "U+DCA8", "",
    "U+D803U+DCE9", "U+D803", "U+DCA9", "",
    "U+D803U+DCEA", "U+D803", "U+DCAA", "",
    "U+D803U+DCEB", "U+D803", "U+DCAB", "",
    "U+D803U+DCEC", "U+D803", "U+DCAC", "",
    "U+D803U+DCED", "U+D803", "U+DCAD", "",
    "U+D803U+DCEE", "U+D803", "U+DCAE", "",
    "U+D803U+DCEF", "U+D803", "U+DCAF", "",
    "U+D803U+DCF0", "U+D803", "U+DCB0", "",
    "U+D803U+DCF1", "U+D803", "U+DCB1", "",
    "U+D803U+DCF2", "U+D803", "U+DCB2", "",
    "U+D803U+DD70", "U+D803", "U+DD50", "",
    "U+D803U+DD71", "U+D803", "U+DD51", "",
    "U+D803U+DD72", "U+D803", "U+DD52", "",
    "U+D803U+DD73", "U+D803", "U+DD53", "",
    "U+D803U+DD74", "U+D803", "U+DD54", "",
    "U+D803U+DD75", "U+D803", "U+DD55", "",
    "U+D803U+DD76", "U+D803", "U+DD56", "",
    "U+D803U+DD77", "U+D803", "U+DD57", "",
    "U+D803U+DD78", "U+D803", "U+DD58", "",
    "U+D803U+DD79", "U+D803", "U+DD59", "",
    "U+D803U+DD7A", "U+D803", "U+DD5A", "",
    "U+D803U+DD7B", "U+D803", "U+DD5B", "",
    "U+D803U+DD7C", "U+D803", "U+DD5C", "",
    "U+D803U+DD7D", "U+D803", "U+DD5D", "",
    "U+D803U+DD7E", "U+D803", "U+DD5E", "",
    "U+D803U+DD7F", "U+D803", "U+DD5F", "",
    "U+D803U+DD80", "U+D803", "U+DD60", "",
    "U+D803U+DD81", "U+D803", "U+DD61", "",
    "U+D803U+DD82", "U+D803", "U+DD62", "",
    "U+D803U+DD83", "U+D803", "U+DD63", "",
    "U+D803U+DD84", "U+D803", "U+DD64", "",
    "U+D803U+DD85", "U+D803", "U+DD65", "",
    "U+D806U+DCC0", "U+D806", "U+DCA0", "",
    "U+D806U+DCC1", "U+D806", "U+DCA1", "",
    "U+D806U+DCC2", "U+D806", "U+DCA2", "",
    "U+D806U+DCC3", "U+D806", "U+DCA3", "",
    "U+D806U+DCC4", "U+D806", "U+DCA4", "",
    "U+D806U+DCC5", "U+D806", "U+DCA5", "",
    "U+D806U+DCC6", "U+D806", "U+DCA6", "",
    "U+D806U+DCC7", "U+D806", "U+DCA7", "",
    "U+D806U+DCC8", "U+D806", "U+DCA8", "",
    "U+D806U+DCC9", "U+D806", "U+DCA9", "",
    "U+D806U+DCCA", "U+D806", "U+DCAA", "",
    "U+D806U+DCCB", "U+D806", "U+DCAB", "",
    "U+D806U+DCCC", "U+D806", "U+DCAC", "",
    "U+D806U+DCCD", "U+D806", "U+DCAD", "",
    "U+D806U+DCCE", "U+D806", "U+DCAE", "",
    "U+D806U+DCCF", "U+D806", "U+DCAF", "",
    "U+D806U+DCD0", "U+D806", "U+DCB0", "",
    "U+D806U+DCD1", "U+D806", "U+DCB1", "",
    "U+D806U+DCD2", "U+D806", "U+DCB2", "",
    "U+D806U+DCD3", "U+D806", "U+DCB3", "",
    "U+D806U+DCD4", "U+D806", "U+DCB4", "",
    "U+D806U+DCD5", "U+D806", "U+DCB5", "",
    "U+D806U+DCD6", "U+D806", "U+DCB6", "",
    "U+D806U+DCD7", "U+D806", "U+DCB7", "",
    "U+D806U+DCD8", "U+D806", "U+DCB8", "",
    "U+D806U+DCD9", "U+D806", "U+DCB9", "",
    "U+D806U+DCDA", "U+D806", "U+DCBA", "",
    "U+D806U+DCDB", "U+D806", "U+DCBB", "",
    "U+D806U+DCDC", "U+D806", "U+DCBC", "",
    "U+D806U+DCDD", "U+D806", "U+DCBD", "",
    "U+D806U+DCDE", "U+D806", "U+DCBE", "",
    "U+D806U+DCDF", "U+D806", "U+DCBF", "",
    "U+D81BU+DE60", "U+D81B", "U+DE40", "",
    "U+D81BU+DE61", "U+D81B", "U+DE41", "",
    "U+D81BU+DE62", "U+D81B", "U+DE42", "",
    "U+D81BU+DE63", "U+D81B", "U+DE43", "",
    "U+D81BU+DE64", "U+D81B", "U+DE44", "",
    "U+D81BU+DE65", "U+D81B", "U+DE45", "",
    "U+D81BU+DE66", "U+D81B", "U+DE46", "",
    "U+D81BU+DE67", "U+D81B", "U+DE47", "",
    "U+D81BU+DE68", "U+D81B", "U+DE48", "",
    "U+D81BU+DE69", "U+D81B", "U+DE49", "",
    "U+D81BU+DE6A", "U+D81B", "U+DE4A", "",
    "U+D81BU+DE6B", "U+D81B", "U+DE4B", "",
    "U+D81BU+DE6C", "U+D81B", "U+DE4C", "",
    "U+D81BU+DE6D", "U+D81B", "U+DE4D", "",
    "U+D81BU+DE6E", "U+D81B", "U+DE4E", "",
    "U+D81BU+DE6F", "U+D81B", "U+DE4F", "",
    "U+D81BU+DE70", "U+D81B", "U+DE50", "",
    "U+D81BU+DE71", "U+D81B", "U+DE51", "",
    "U+D81BU+DE72", "U+D81B", "U+DE52", "",
    "U+D81BU+DE73", "U+D81B", "U+DE53", "",
    "U+D81BU+DE74", "U+D81B", "U+DE54", "",
    "U+D81BU+DE75", "U+D81B", "U+DE55", "",
    "U+D81BU+DE76", "U+D81B", "U+DE56", "",
    "U+D81BU+DE77", "U+D81B", "U+DE57", "",
    "U+D81BU+DE78", "U+D81B", "U+DE58", "",
    "U+D81BU+DE79", "U+D81B", "U+DE59", "",
    "U+D81BU+DE7A", "U+D81B", "U+DE5A", "",
    "U+D81BU+DE7B", "U+D81B", "U+DE5B", "",
    "U+D81BU+DE7C", "U+D81B", "U+DE5C", "",
    "U+D81BU+DE7D", "U+D81B", "U+DE5D", "",
    "U+D81BU+DE7E", "U+D81B", "U+DE5E", "",
    "U+D81BU+DE7F", "U+D81B", "U+DE5F", "",
    "U+D81BU+DEBB", "U+D81B", "U+DEA0", "",
    "U+D81BU+DEBC", "U+D81B", "U+DEA1", "",
    "U+D81BU+DEBD", "U+D81B", "U+DEA2", "",
    "U+D81BU+DEBE", "U+D81B", "U+DEA3", "",
    "U+D81BU+DEBF", "U+D81B", "U+DEA4", "",
    "U+D81BU+DEC0", "U+D81B", "U+DEA5", "",
    "U+D81BU+DEC1", "U+D81B", "U+DEA6", "",
    "U+D81BU+DEC2", "U+D81B", "U+DEA7", "",
    "U+D81BU+DEC3", "U+D81B", "U+DEA8", "",
    "U+D81BU+DEC4", "U+D81B", "U+DEA9", "",
    "U+D81BU+DEC5", "U+D81B", "U+DEAA", "",
    "U+D81BU+DEC6", "U+D81B", "U+DEAB", "",
    "U+D81BU+DEC7", "U+D81B", "U+DEAC", "",
    "U+D81BU+DEC8", "U+D81B", "U+DEAD", "",
    "U+D81BU+DEC9", "U+D81B", "U+DEAE", "",
    "U+D81BU+DECA", "U+D81B", "U+DEAF", "",
    "U+D81BU+DECB", "U+D81B", "U+DEB0", "",
    "U+D81BU+DECC", "U+D81B", "U+DEB1", "",
    "U+D81BU+DECD", "U+D81B", "U+DEB2", "",
    "U+D81BU+DECE", "U+D81B", "U+DEB3", "",
    "U+D81BU+DECF", "U+D81B", "U+DEB4", "",
    "U+D81BU+DED0", "U+D81B", "U+DEB5", "",
    "U+D81BU+DED1", "U+D81B", "U+DEB6", "",
    "U+D81BU+DED2", "U+D81B", "U+DEB7", "",
    "U+D81BU+DED3", "U+D81B", "U+DEB8", "",
    "U+D83AU+DD22", "U+D83A", "U+DD00", "",
    "U+D83AU+DD23", "U+D83A", "U+DD01", "",
    "U+D83AU+DD24", "U+D83A", "U+DD02", "",
    "U+D83AU+DD25", "U+D83A", "U+DD03", "",
    "U+D83AU+DD26", "U+D83A", "U+DD04", "",
    "U+D83AU+DD27", "U+D83A", "U+DD05", "",
    "U+D83AU+DD28", "U+D83A", "U+DD06", "",
    "U+D83AU+DD29", "U+D83A", "U+DD07", "",
    "U+D83AU+DD2A", "U+D83A", "U+DD08", "",
    "U+D83AU+DD2B", "U+D83A", "U+DD09", "",
    "U+D83AU+DD2C", "U+D83A", "U+DD0A", "",
    "U+D83AU+DD2D", "U+D83A", "U+DD0B", "",
    "U+D83AU+DD2E", "U+D83A", "U+DD0C", "",
    "U+D83AU+DD2F", "U+D83A", "U+DD0D", "",
    "U+D83AU+DD30", "U+D83A", "U+DD0E", "",
    "U+D83AU+DD31", "U+D83A", "U+DD0F", "",
    "U+D83AU+DD32", "U+D83A", "U+DD10", "",
    "U+D83AU+DD33", "U+D83A", "U+DD11", "",
    "U+D83AU+DD34", "U+D83A", "U+DD12", "",
    "U+D83AU+DD35", "U+D83A", "U+DD13", "",
    "U+D83AU+DD36", "U+D83A", "U+DD14", "",
    "U+D83AU+DD37", "U+D83A", "U+DD15", "",
    "U+D83AU+DD38", "U+D83A", "U+DD16", "",
    "U+D83AU+DD39", "U+D83A", "U+DD17", "",
    "U+D83AU+DD3A", "U+D83A", "U+DD18", "",
    "U+D83AU+DD3B", "U+D83A", "U+DD19", "",
    "U+D83AU+DD3C", "U+D83A", "U+DD1A", "",
    "U+D83AU+DD3D", "U+D83A", "U+DD1B", "",
    "U+D83AU+DD3E", "U+D83A", "U+DD1C", "",
    "U+D83AU+DD3F", "U+D83A", "U+DD1D", "",
    "U+D83AU+DD40", "U+D83A", "U+DD1E", "",
    "U+D83AU+DD41", "U+D83A", "U+DD1F", "",
    "U+D83AU+DD42", "U+D83A", "U+DD20", "",
    "U+D83AU+DD43", "U+D83A", "U+DD21", "">>

\* The cased code points (Lowercase, Uppercase or titlecase letter) that are
\* not case-ignorable
CasedLetters ==
  {"A", "B", "C", "D", "E", "F", "G", "H", "I", "J", "K", "L", "M", "N", "O",
   "P", "Q", "R", "S", "T", "U", "V", "W", "X", "Y", "Z", "a", "b", "c", "d",
   "e", "f", "g", "h", "i", "j", "k", "l", "m", "n", "o", "p", "q", "r", "s",
   "t", "u", "v", "w", "x", "y", "z", "U+00AA", "U+00B5", "U+00BA", "U+00C0",
   "U+00C1", "U+00C2", "U+00C3", "U+00C4", "U+00C5", "U+00C6", "U+00C7",
   "U+00C8", "U+00C9", "U+00CA", "U+00CB", "U+00CC", "U+00CD", "U+00CE",
   "U+00CF", "U+00D0", "U+00D1", "U+00D2", "U+00D3", "U+00D4", "U+00D5",
   "U+00D6", "U+00D8", "U+00D9", "U+00DA", "U+00DB", "U+00DC", "U+00DD",
   "U+00DE", "U+00DF", "U+00E0", "U+00E1", "U+00E2", "U+00E3", "U+00E4",
   "U+00E5", "U+00E6", "U+00E7", "U+00E8", "U+00E9", "U+00EA", "U+00EB",
   "U+00EC", "U+00ED", "U+00EE", "U+00EF", "U+00F0", "U+00F1", "U+00F2",
   "U+00F3", "U+00F4", "U+00F5", "U+00F6", "U+00F8", "U+00F9", "U+00FA",
   "U+00FB", "U+00FC", "U+00FD", "U+00FE", "U+00FF", "U+0100", "U+0101",
   "U+0102", "U+0103", "U+0104", "U+0105", "U+0106", "U+0107", "U+0108",
   "U+0109", "U+010A", "U+010B", "U+010C", "U+010D", "U+010E", "U+010F",
   "U+0110", "U+0111", "U+0112", "U+0113", "U+0114", "U+0115", "U+0116",
   "U+0117", "U+0118", "U+0119", "U+011A", "U+011B", "U+011C", "U+011D",
   "U+011E", "U+011F", "U+0120", "U+0121", "U+0122", "U+0123", "U+0124",
   "U+0125", "U+0126", "U+0127", "U+0128", "U+0129", "U+012A", "U+012B",
   "U+012C", "U+012D", "U+012E", "U+012F", "U+0130", "U+0131", "U+0132",
   "U+0133", "U+0134", "U+0135", "U+0136", "U+0137", "U+0138", "U+0139",
   "U+013A", "U+013B", "U+013C", "U+013D", "U+013E", "U+013F", "U+0140",
   "U+0141", "U+0142", "U+0143", "U+0144", "U+0145", "U+0146", "U+0147",
   "U+0148", "U+0149", "U+014A", "U+014B", "U+014C", "U+014D", "U+014E",
   "U+014F", "U+0150", "U+0151", "U+0152", "U+0153", "U+0154", "U+0155",
   "U+0156", "U+0157", "U+0158", "U+0159", "U+015A", "U+015B", "U+015C",
   "U+015D", "U+015E", "U+015F", "U+0160", "U+0161", "U+0162", "U+0163",
   "U+0164", "U+0165", "U+0166", "U+0167", "U+0168", "U+0169", "U+016A",
   "U+016B", "U+016C", "U+016D", "U+016E", "U+016F", "U+0170", "U+0171",
   "U+0172", "U+0173", "U+0174", "U+0175", "U+0176", "U+0177", "U+0178",
   "U+0179", "U+017A", "U+017B", "U+017C", "U+017D", "U+017E", "U+017F",
   "U+0180", "U+0181", "U+0182", "U+0183", "U+0184", "U+0185", "U+0186",
   "U+0187", "U+0188", "U+0189", "U+018A", "U+018B", "U+018C", "U+018D",
   "U+018E", "U+018F", "U+0190", "U+0191", "U+0192", "U+0193", "U+0194",
   "U+0195", "U+0196", "U+0197", "U+0198", "U+0199", "U+019A", "U+019B",
   "U+019C", "U+019D", "U+019E", "U+019F", "U+01A0", "U+01A1", "U+01A2",
   "U+01A3", "U+01A4", "U+01A5", "U+01A6", "U+01A7", "U+01A8", "U+01A9",
   "U+01AA", "U+01AB", "U+01AC", "U+01AD", "U+01AE", "U+01AF", "U+01B0",
   "U+01B1", "U+01B2", "U+01B3", "U+01B4", "U+01B5", "U+01B6", "U+01B7",
   "U+01B8", "U+01B9", "U+01BA", "U+01BC", "U+01BD", "U+01BE", "U+01BF",
   "U+01C4", "U+01C5", "U+01C6", "U+01C7", "U+01C8", "U+01C9", "U+01CA",
   "U+01CB", "U+01CC", "U+01CD", "U+01CE", "U+01CF", "U+01D0", "U+01D1",
   "U+01D2", "U+01D3", "U+01D4", "U+01D5", "U+01D6", "U+01D7", "U+01D8",
   "U+01D9", "U+01DA", "U+01DB", "U+01DC", "U+01DD", "U+01DE", "U+01DF",
   "U+01E0", "U+01E1", "U+01E2", "U+01E3", "U+01E4", "U+01E5", "U+01E6",
   "U+01E7", "U+01E8", "U+01E9", "U+01EA", "U+01EB", "U+01EC", "U+01ED",
   "U+01EE", "U+01EF", "U+01F0", "U+01F1", "U+01F2", "U+01F3", "U+01F4",
   "U+01F5", "U+01F6", "U+01F7", "U+01F8", "U+01F9", "U+01FA", "U+01FB",
   "U+01FC", "U+01FD", "U+01FE", "U+01FF", "U+0200", "U+0201", "U+0202",
   "U+0203", "U+0204", "U+0205", "U+0206", "U+0207", "U+0208", "U+0209",
   "U+020A", "U+020B", "U+020C", "U+020D", "U+020E", "U+020F", "U+0210",
   "U+0211", "U+0212", "U+0213", "U+0214", "U+0215", "U+0216", "U+0217",
   "U+0218", "U+0219", "U+021A", "U+021B", "U+021C", "U+021D", "U+021E",
   "U+021F", "U+0220", "U+0221", "U+0222", "U+0223", "U+0224", "U+0225",
   "U+0226", "U+0227", "U+0228", "U+0229", "U+022A", "U+022B", "U+022C",
   "U+022D", "U+022E", "U+022F", "U+0230", "U+0231", "U+0232", "U+0233",
   "U+0234", "U+0235", "U+0236", "U+0237", "U+0238", "U+0239", "U+023A",
   "U+023B", "U+023C", "U+023D", "U+023E", "U+023F", "U+0240", "U+0241",
   "U+0242", "U+0243", "U+0244", "U+0245", "U+0246", "U+0247", "U+0248",
   "U+0249", "U+024A", "U+024B", "U+024C", "U+024D", "U+024E", "U+024F",
   "U+0250", "U+0251", "U+0252", "U+0253", "U+0254", "U+0255", "U+0256",
   "U+0257", "U+0258", "U+0259", "U+025A", "U+025B", "U+025C", "U+025D",
   "U+025E", "U+025F", "U+0260", "U+0261", "U+0262", "U+0263", "U+0264",
   "U+0265", "U+0266", "U+0267", "U+0268", "U+0269", "U+026A", "U+026B",
   "U+026C", "U+026D", "U+026E", "U+026F", "U+0270", "U+0271", "U+0272",
   "U+0273", "U+0274", "U+0275", "U+0276", "U+0277", "U+0278", "U+0279",
   "U+027A", "U+027B", "U+027C", "U+027D", "U+027E", "U+027F", "U+0280",
   "U+0281", "U+0282", "U+0283", "U+0284", "U+0285", "U+0286", "U+0287",
   "U+0288", "U+0289", "U+028A", "U+028B", "U+028C", "U+028D", "U+028E",
   "U+028F", "U+0290", "U+0291", "U+0292", "U+0293", "U+0296", "U+0297",
   "U+0298", "U+0299", "U+029A", "U+029B", "U+029C", "U+029D", "U+029E",
   "U+029F", "U+02A0", "U+02A1", "U+02A2", "U+02A3", "U+02A4", "U+02A5",
   "U+02A6", "U+02A7", "U+02A8", "U+02A9", "U+02AA", "U+02AB", "U+02AC",
   "U+02AD", "U+02AE", "U+02AF", "U+0370", "U+0371", "U+0372", "U+0373",
   "U+0376", "U+0377", "U+037B", "U+037C", "U+037D", "U+037F", "U+0386",
   "U+0388", "U+0389", "U+038A", "U+038C", "U+038E", "U+038F", "U+0390",
   "U+0391", "U+0392", "U+0393", "U+0394", "U+0395", "U+0396", "U+0397",
   "U+0398", "U+0399", "U+039A", "U+039B", "U+039C", "U+039D", "U+039E",
   "U+039F", "U+03A0", "U+03A1", "U+03A3", "U+03A4", "U+03A5", "U+03A6",
   "U+03A7", "U+03A8", "U+03A9", "U+03AA", "U+03AB", "U+03AC", "U+03AD",
   "U+03AE", "U+03AF", "U+03B0", "U+03B1", "U+03B2", "U+03B3", "U+03B4",
   "U+03B5", "U+03B6", "U+03B7", "U+03B8", "U+03B9", "U+03BA", "U+03BB",
   "U+03BC", "U+03BD", "U+03BE", "U+03BF", "U+03C0", "U+03C1", "U+03C2",
   "U+03C3", "U+03C4", "U+03C5", "U+03C6", "U+03C7", "U+03C8", "U+03C9",
   "U+03CA", "U+03CB", "U+03CC", "U+03CD", "U+03CE", "U+03CF", "U+03D0",
   "U+03D1", "U+03D2", "U+03D3", "U+03D4", "U+03D5", "U+03D6", "U+03D7",
   "U+03D8", "U+03D9", "U+03DA", "U+03DB", "U+03DC", "U+03DD", "U+03DE",
   "U+03DF", "U+03E0", "U+03E1", "U+03E2", "U+03E3", "U+03E4", "U+03E5",
   "U+03E6", "U+03E7", "U+03E8", "U+03E9", "U+03EA", "U+03EB", "U+03EC",
   "U+03ED", "U+03EE", "U+03EF", "U+03F0", "U+03F1", "U+03F2", "U+03F3",
   "U+03F4", "U+03F5", "U+03F7", "U+03F8", "U+03F9", "U+03FA", "U+03FB",
   "U+03FC", "U+03FD", "U+03FE", "U+03FF", "U+0400", "U+0401", "U+0402",
   "U+0403", "U+0404", "U+0405", "U+0406", "U+0407", "U+0408", "U+0409",
   "U+040A", "U+040B", "U+040C", "U+040D", "U+040E", "U+040F", "U+0410",
   "U+0411", "U+0412", "U+0413", "U+0414", "U+0415", "U+0416", "U+0417",
   "U+0418", "U+0419", "U+041A", "U+041B", "U+041C", "U+041D", "U+041E",
   "U+041F", "U+0420", "U+0421", "U+0422", "U+0423", "U+0424", "U+0425",
   "U+0426", "U+0427", "U+0428", "U+0429", "U+042A", "U+042B", "U+042C",
   "U+042D", "U+042E", "U+042F", "U+0430", "U+0431", "U+0432", "U+0433",
   "U+0434", "U+0435", "U+0436", "U+0437", "U+0438", "U+0439", "U+043A",
   "U+043B", "U+043C", "U+043D", "U+043E", "U+043F", "U+0440", "U+0441",
   "U+0442", "U+0443", "U+0444", "U+0445", "U+0446", "U+0447", "U+0448",
   "U+0449", "U+044A", "U+044B", "U+044C", "U+044D", "U+044E", "U+044F",
   "U+0450", "U+0451", "U+0452", "U+0453", "U+0454", "U+0455", "U+0456",
   "U+0457", "U+0458", "U+0459", "U+045A", "U+045B", "U+045C", "U+045D",
   "U+045E", "U+045F", "U+0460", "U+0461", "U+0462", "U+0463", "U+0464",
   "U+0465", "U+0466", "U+0467", "U+0468", "U+0469", "U+046A", "U+046B",
   "U+046C", "U+046D", "U+046E", "U+046F", "U+0470", "U+0471", "U+0472",
   "U+0473", "U+0474", "U+0475", "U+0476", "U+0477", "U+0478", "U+0479",
   "U+047A", "U+047B", "U+047C", "U+047D", "U+047E", "U+047F", "U+0480",
   "U+0481", "U+048A", "U+048B", "U+048C", "U+048D", "U+048E", "U+048F",
   "U+0490", "U+0491", "U+0492", "U+0493", "U+0494", "U+0495", "U+0496",
   "U+0497", "U+0498", "U+0499", "U+049A", "U+049B", "U+049C", "U+049D",
   "U+049E", "U+049F", "U+04A0", "U+04A1", "U+04A2", "U+04A3", "U+04A4",
   "U+04A5", "U+04A6", "U+04A7", "U+04A8", "U+04A9", "U+04AA", "U+04AB",
   "U+04AC", "U+04AD", "U+04AE", "U+04AF", "U+04B0", "U+04B1", "U+04B2",
   "U+04B3", "U+04B4", "U+04B5", "U+04B6", "U+04B7", "U+04B8", "U+04B9",
   "U+04BA", "U+04BB", "U+04BC", "U+04BD", "U+04BE", "U+04BF", "U+04C0",
   "U+04C1", "U+04C2", "U+04C3", "U+04C4", "U+04C5", "U+04C6", "U+04C7",
   "U+04C8", "U+04C9", "U+04CA", "U+04CB", "U+04CC", "U+04CD", "U+04CE",
   "U+04CF", "U+04D0", "U+04D1", "U+04D2", "U+04D3", "U+04D4", "U+04D5",
   "U+04D6", "U+04D7", "U+04D8", "U+04D9", "U+04DA", "U+04DB", "U+04DC",
   "U+04DD", "U+04DE", "U+04DF", "U+04E0", "U+04E1", "U+04E2", "U+04E3",
   "U+04E4", "U+04E5", "U+04E6", "U+04E7", "U+04E8", "U+04E9", "U+04EA",
   "U+04EB", "U+04EC", "U+04ED", "U+04EE", "U+04EF", "U+04F0", "U+04F1",
   "U+04F2", "U+04F3", "U+04F4", "U+04F5", "U+04F6", "U+04F7", "U+04F8",
   "U+04F9", "U+04FA", "U+04FB", "U+04FC", "U+04FD", "U+04FE", "U+04FF",
   "U+0500", "U+0501", "U+0502", "U+0503", "U+0504", "U+0505", "U+0506",
   "U+0507", "U+0508", "U+0509", "U+050A", "U+050B", "U+050C", "U+050D",
   "U+050E", "U+050F", "U+0510", "U+0511", "U+0512", "U+0513", "U+0514",
   "U+0515", "U+0516", "U+0517", "U+0518", "U+0519", "U+051A", "U+051B",
   "U+051C", "U+051D", "U+051E", "U+051F", "U+0520", "U+0521", "U+0522",
   "U+0523", "U+0524", "U+0525", "U+0526", "U+0527", "U+0528", "U+0529",
   "U+052A", "U+052B", "U+052C", "U+052D", "U+052E", "U+052F", "U+0531",
   "U+0532", "U+0533", "U+0534", "U+0535", "U+0536", "U+0537", "U+0538",
   "U+0539", "U+053A", "U+053B", "U+053C", "U+053D", "U+053E", "U+053F",
   "U+0540", "U+0541", "U+0542", "U+0543", "U+0544", "U+0545", "U+0546",
   "U+0547", "U+0548", "U+0549", "U+054A", "U+054B", "U+054C", "U+054D",
   "U+054E", "U+054F", "U+0550", "U+0551", "U+0552", "U+0553", "U+0554",
   "U+0555", "U+0556", "U+0560", "U+0561", "U+0562", "U+0563", "U+0564",
   "U+0565", "U+0566", "U+0567", "U+0568", "U+0569", "U+056A", "U+056B",
   "U+056C", "U+056D", "U+056E", "U+056F", "U+0570", "U+0571", "U+0572",
   "U+0573", "U+0574", "U+0575", "U+0576", "U+0577", "U+0578", "U+0579",
   "U+057A", "U+057B", "U+057C", "U+057D", "U+057E", "U+057F", "U+0580",
   "U+0581", "U+0582", "U+0583", "U+0584", "U+0585", "U+0586", "U+0587",
   "U+0588", "U+10A0", "U+10A1", "U+10A2", "U+10A3", "U+10A4", "U+10A5",
   "U+10A6", "U+10A7", "U+10A8", "U+10A9", "U+10AA", "U+10AB", "U+10AC",
   "U+10AD", "U+10AE", "U+10AF", "U+10B0", "U+10B1", "U+10B2", "U+10B3",
   "U+10B4", "U+10B5", "U+10B6", "U+10B7", "U+10B8", "U+10B9", "U+10BA",
   "U+10BB", "U+10BC", "U+10BD", "U+10BE", "U+10BF", "U+10C0", "U+10C1",
   "U+10C2", "U+10C3", "U+10C4", "U+10C5", "U+10C7", "U+10CD", "U+10D0",
   "U+10D1", "U+10D2", "U+10D3", "U+10D4", "U+10D5", "U+10D6", "U+10D7",
   "U+10D8", "U+10D9", "U+10DA", "U+10DB", "U+10DC", "U+10DD", "U+10DE",
   "U+10DF", "U+10E0", "U+10E1", "U+10E2", "U+10E3", "U+10E4", "U+10E5",
   "U+10E6", "U+10E7", "U+10E8", "U+10E9", "U+10EA", "U+10EB", "U+10EC",
   "U+10ED", "U+10EE", "U+10EF", "U+10F0", "U+10F1", "U+10F2", "U+10F3",
   "U+10F4", "U+10F5", "U+10F6", "U+10F7", "U+10F8", "U+10F9", "U+10FA",
   "U+10FD", "U+10FE", "U+10FF", "U+13A0", "U+13A1", "U+13A2", "U+13A3",
   "U+13A4", "U+13A5", "U+13A6", "U+13A7", "U+13A8", "U+13A9", "U+13AA",
   "U+13AB", "U+13AC", "U+13AD", "U+13AE", "U+13AF", "U+13B0", "U+13B1",
   "U+13B2", "U+13B3", "U+13B4", "U+13B5", "U+13B6", "U+13B7", "U+13B8",
   "U+13B9", "U+13BA", "U+13BB", "U+13BC", "U+13BD", "U+13BE", "U+13BF",
   "U+13C0", "U+13C1", "U+13C2", "U+13C3", "U+13C4", "U+13C5", "U+13C6",
   "U+13C7", "U+13C8", "U+13C9", "U+13CA", "U+13CB", "U+13CC", "U+13CD",
   "U+13CE", "U+13CF", "U+13D0", "U+13D1", "U+13D2", "U+13D3", "U+13D4",
   "U+13D5", "U+13D6", "U+13D7", "U+13D8", "U+13D9", "U+13DA", "U+13DB",
   "U+13DC", "U+13DD", "U+13DE", "U+13DF", "U+13E0", "U+13E1", "U+13E2",
   "U+13E3", "U+13E4", "U+13E5", "U+13E6", "U+13E7", "U+13E8", "U+13E9",
   "U+13EA", "U+13EB", "U+13EC", "U+13ED", "U+13EE", "U+13EF", "U+13F0",
   "U+13F1", "U+13F2", "U+13F3", "U+13F4", "U+13F5", "U+13F8", "U+13F9",
   "U+13FA", "U+13FB", "U+13FC", "U+13FD", "U+1C80", "U+1C81", "U+1C82",
   "U+1C83", "U+1C84", "U+1C85", "U+1C86", "U+1C87", "U+1C88", "U+1C89",
   "U+1C8A", "U+1C90", "U+1C91", "U+1C92", "U+1C93", "U+1C94", "U+1C95",
   "U+1C96", "U+1C97", "U+1C98", "U+1C99", "U+1C9A", "U+1C9B", "U+1C9C",
   "U+1C9D", "U+1C9E", "U+1C9F", "U+1CA0", "U+1CA1", "U+1CA2", "U+1CA3",
   "U+1CA4", "U+1CA5", "U+1CA6", "U+1CA7", "U+1CA8", "U+1CA9", "U+1CAA",
   "U+1CAB", "U+1CAC", "U+1CAD", "U+1CAE", "U+1CAF", "U+1CB0", "U+1CB1",
   "U+1CB2", "U+1CB3", "U+1CB4", "U+1CB5", "U+1CB6", "U+1CB7", "U+1CB8",
   "U+1CB9", "U+1CBA", "U+1CBD", "U+1CBE", "U+1CBF", "U+1D00", "U+1D01",
   "U+1D02", "U+1D03", "U+1D04", "U+1D05", "U+1D06", "U+1D07", "U+1D08",
   "U+1D09", "U+1D0A", "U+1D0B", "U+1D0C", "U+1D0D", "U+1D0E", "U+1D0F",
   "U+1D10", "U+1D11", "U+1D12", "U+1D13", "U+1D14", "U+1D15", "U+1D16",
   "U+1D17", "U+1D18", "U+1D19", "U+1D1A", "U+1D1B", "U+1D1C", "U+1D1D",
   "U+1D1E", "U+1D1F", "U+1D20", "U+1D21", "U+1D22", "U+1D23", "U+1D24",
   "U+1D25", "U+1D26", "U+1D27", "U+1D28", "U+1D29", "U+1D2A", "U+1D2B",
   "U+1D6B", "U+1D6C", "U+1D6D", "U+1D6E", "U+1D6F", "U+1D70", "U+1D71",
   "U+1D72", "U+1D73", "U+1D74", "U+1D75", "U+1D76", "U+1D77", "U+1D79",
   "U+1D7A", "U+1D7B", "U+1D7C", "U+1D7D", "U+1D7E", "U+1D7F", "U+1D80",
   "U+1D81", "U+1D82", "U+1D83", "U+1D84", "U+1D85", "U+1D86", "U+1D87",
   "U+1D88", "U+1D89", "U+1D8A", "U+1D8B", "U+1D8C", "U+1D8D", "U+1D8E",
   "U+1D8F", "U+1D90", "U+1D91", "U+1D92", "U+1D93", "U+1D94", "U+1D95",
   "U+1D96", "U+1D97", "U+1D98", "U+1D99", "U+1D9A", "U+1E00", "U+1E01",
   "U+1E02", "U+1E03", "U+1E04", "U+1E05", "U+1E06", "U+1E07", "U+1E08",
   "U+1E09", "U+1E0A", "U+1E0B", "U+1E0C", "U+1E0D", "U+1E0E", "U+1E0F",
   "U+1E10", "U+1E11", "U+1E12", "U+1E13", "U+1E14", "U+1E15", "U+1E16",
   "U+1E17", "U+1E18", "U+1E19", "U+1E1A", "U+1E1B", "U+1E1C", "U+1E1D",
   "U+1E1E", "U+1E1F", "U+1E20", "U+1E21", "U+1E22", "U+1E23", "U+1E24",
   "U+1E25", "U+1E26", "U+1E27", "U+1E28", "U+1E29", "U+1E2A", "U+1E2B",
   "U+1E2C", "U+1E2D", "U+1E2E", "U+1E2F", "U+1E30", "U+1E31", "U+1E32",
   "U+1E33", "U+1E34", "U+1E35", "U+1E36", "U+1E37", "U+1E38", "U+1E39",
   "U+1E3A", "U+1E3B", "U+1E3C", "U+1E3D", "U+1E3E", "U+1E3F", "U+1E40",
   "U+1E41", "U+1E42", "U+1E43", "U+1E44", "U+1E45", "U+1E46", "U+1E47",
   "U+1E48", "U+1E49", "U+1E4A", "U+1E4B", "U+1E4C", "U+1E4D", "U+1E4E",
   "U+1E4F", "U+1E50", "U+1E51", "U+1E52", "U+1E53", "U+1E54", "U+1E55",
   "U+1E56", "U+1E57", "U+1E58", "U+1E59", "U+1E5A", "U+1E5B", "U+1E5C",
   "U+1E5D", "U+1E5E", "U+1E5F", "U+1E60", "U+1E61", "U+1E62", "U+1E63",
   "U+1E64", "U+1E65", "U+1E66", "U+1E67", "U+1E68", "U+1E69", "U+1E6A",
   "U+1E6B", "U+1E6C", "U+1E6D", "U+1E6E", "U+1E6F", "U+1E70", "U+1E71",
   "U+1E72", "U+1E73", "U+1E74", "U+1E75", "U+1E76", "U+1E77", "U+1E78",
   "U+1E79", "U+1E7A", "U+1E7B", "U+1E7C", "U+1E7D", "U+1E7E", "U+1E7F",
   "U+1E80", "U+1E81", "U+1E82", "U+1E83", "U+1E84", "U+1E85", "U+1E86",
   "U+1E87", "U+1E88", "U+1E89", "U+1E8A", "U+1E8B", "U+1E8C", "U+1E8D",
   "U+1E8E", "U+1E8F", "U+1E90", "U+1E91", "U+1E92", "U+1E93", "U+1E94",
   "U+1E95", "U+1E96", "U+1E97", "U+1E98", "U+1E99", "U+1E9A", "U+1E9B",
   "U+1E9C", "U+1E9D", "U+1E9E", "U+1E9F", "U+1EA0", "U+1EA1", "U+1EA2",
   "U+1EA3", "U+1EA4", "U+1EA5", "U+1EA6", "U+1EA7", "U+1EA8", "U+1EA9",
   "U+1EAA", "U+1EAB", "U+1EAC", "U+1EAD", "U+1EAE", "U+1EAF", "U+1EB0",
   "U+1EB1", "U+1EB2", "U+1EB3", "U+1EB4", "U+1EB5", "U+1EB6", "U+1EB7",
   "U+1EB8", "U+1EB9", "U+1EBA", "U+1EBB", "U+1EBC", "U+1EBD", "U+1EBE",
   "U+1EBF", "U+1EC0", "U+1EC1", "U+1EC2", "U+1EC3", "U+1EC4", "U+1EC5",
   "U+1EC6", "U+1EC7", "U+1EC8", "U+1EC9", "U+1ECA", "U+1ECB", "U+1ECC",
   "U+1ECD", "U+1ECE", "U+1ECF", "U+1ED0", "U+1ED1", "U+1ED2", "U+1ED3",
   "U+1ED4", "U+1ED5", "U+1ED6", "U+1ED7", "U+1ED8", "U+1ED9", "U+1EDA",
   "U+1EDB", "U+1EDC", "U+1EDD", "U+1EDE", "U+1EDF", "U+1EE0", "U+1EE1",
   "U+1EE2", "U+1EE3", "U+1EE4", "U+1EE5", "U+1EE6", "U+1EE7", "U+1EE8",
   "U+1EE9", "U+1EEA", "U+1EEB", "U+1EEC", "U+1EED", "U+1EEE", "U+1EEF",
   "U+1EF0", "U+1EF1", "U+1EF2", "U+1EF3", "U+1EF4", "U+1EF5", "U+1EF6",
   "U+1EF7", "U+1EF8", "U+1EF9", "U+1EFA", "U+1EFB", "U+1EFC", "U+1EFD",
   "U+1EFE", "U+1EFF", "U+1F00", "U+1F01", "U+1F02", "U+1F03", "U+1F04",
   "U+1F05", "U+1F06", "U+1F07", "U+1F08", "U+1F09", "U+1F0A", "U+1F0B",
   "U+1F0C", "U+1F0D", "U+1F0E", "U+1F0F", "U+1F10", "U+1F11", "U+1F12",
   "U+1F13", "U+1F14", "U+1F15", "U+1F18", "U+1F19", "U+1F1A", "U+1F1B",
   "U+1F1C", "U+1F1D", "U+1F20", "U+1F21", "U+1F22", "U+1F23", "U+1F24",
   "U+1F25", "U+1F26", "U+1F27", "U+1F28", "U+1F29", "U+1F2A", "U+1F2B",
   "U+1F2C", "U+1F2D", "U+1F2E", "U+1F2F", "U+1F30", "U+1F31", "U+1F32",
   "U+1F33", "U+1F34", "U+1F35", "U+1F36", "U+1F37", "U+1F38", "U+1F39",
   "U+1F3A", "U+1F3B", "U+1F3C", "U+1F3D", "U+1F3E", "U+1F3F", "U+1F40",
   "U+1F41", "U+1F42", "U+1F43", "U+1F44", "U+1F45", "U+1F48", "U+1F49",
   "U+1F4A", "U+1F4B", "U+1F4C", "U+1F4D", "U+1F50", "U+1F51", "U+1F52",
   "U+1F53", "U+1F54", "U+1F55", "U+1F56", "U+1F57", "U+1F59", "U+1F5B",
   "U+1F5D", "U+1F5F", "U+1F60", "U+1F61", "U+1F62", "U+1F63", "U+1F64",
   "U+1F65", "U+1F66", "U+1F67", "U+1F68", "U+1F69", "U+1F6A", "U+1F6B",
   "U+1F6C", "U+1F6D", "U+1F6E", "U+1F6F", "U+1F70", "U+1F71", "U+1F72",
   "U+1F73", "U+1F74", "U+1F75", "U+1F76", "U+1F77", "U+1F78", "U+1F79",
   "U+1F7A", "U+1F7B", "U+1F7C", "U+1F7D", "U+1F80", "U+1F81", "U+1F82",
   "U+1F83", "U+1F84", "U+1F85", "U+1F86", "U+1F87", "U+1F88", "U+1F89",
   "U+1F8A", "U+1F8B", "U+1F8C", "U+1F8D", "U+1F8E", "U+1F8F", "U+1F90",
   "U+1F91", "U+1F92", "U+1F93", "U+1F94", "U+1F95", "U+1F96", "U+1F97",
   "U+1F98", "U+1F99", "U+1F9A", "U+1F9B", "U+1F9C", "U+1F9D", "U+1F9E",
   "U+1F9F", "U+1FA0", "U+1FA1", "U+1FA2", "U+1FA3", "U+1FA4", "U+1FA5",
   "U+1FA6", "U+1FA7", "U+1FA8", "U+1FA9", "U+1FAA", "U+1FAB", "U+1FAC",
   "U+1FAD", "U+1FAE", "U+1FAF", "U+1FB0", "U+1FB1", "U+1FB2", "U+1FB3",
   "U+1FB4", "U+1FB6", "U+1FB7", "U+1FB8", "U+1FB9", "U+1FBA", "U+1FBB",
   "U+1FBC", "U+1FBE", "U+1FC2", "U+1FC3", "U+1FC4", "U+1FC6", "U+1FC7",
   "U+1FC8", "U+1FC9", "U+1FCA", "U+1FCB", "U+1FCC", "U+1FD0", "U+1FD1",
   "U+1FD2", "U+1FD3", "U+1FD6", "U+1FD7", "U+1FD8", "U+1FD9", "U+1FDA",
   "U+1FDB", "U+1FE0", "U+1FE1", "U+1FE2", "U+1FE3", "U+1FE4", "U+1FE5",
   "U+1FE6", "U+1FE7", "U+1FE8", "U+1FE9", "U+1FEA", "U+1FEB", "U+1FEC",
   "U+1FF2", "U+1FF3", "U+1FF4", "U+1FF6", "U+1FF7", "U+1FF8", "U+1FF9",
   "U+1FFA", "U+1FFB", "U+1FFC", "U+2102", "U+2107", "U+210A", "U+210B",
   "U+210C", "U+210D", "U+210E", "U+210F", "U+2110", "U+2111", "U+2112",
   "U+2113", "U+2115", "U+2119", "U+211A", "U+211B", "U+211C", "U+211D",
   "U+2124", "U+2126", "U+2128", "U+212A", "U+212B", "U+212C", "U+212D",
   "U+212F", "U+2130", "U+2131", "U+2132", "U+2133", "U+2134", "U+2139",
   "U+213C", "U+213D", "U+213E", "U+213F", "U+2145", "U+2146", "U+2147",
   "U+2148", "U+2149", "U+214E", "U+2160", "U+2161", "U+2162", "U+2163",
   "U+2164", "U+2165", "U+2166", "U+2167", "U+2168", "U+2169", "U+216A",
   "U+216B", "U+216C", "U+216D", "U+216E", "U+216F", "U+2170", "U+2171",
   "U+2172", "U+2173", "U+2174", "U+2175", "U+2176", "U+2177", "U+2178",
   "U+2179", "U+217A", "U+217B", "U+217C", "U+217D", "U+217E", "U+217F",
   "U+2183", "U+2184", "U+24B6", "U+24B7", "U+24B8", "U+24B9", "U+24BA",
   "U+24BB", "U+24BC", "U+24BD", "U+24BE", "U+24BF", "U+24C0", "U+24C1",
   "U+24C2", "U+24C3", "U+24C4", "U+24C5", "U+24C6", "U+24C7", "U+24C8",
   "U+24C9", "U+24CA", "U+24CB", "U+24CC", "U+24CD", "U+24CE", "U+24CF",
   "U+24D0", "U+24D1", "U+24D2", "U+24D3", "U+24D4", "U+24D5", "U+24D6",
   "U+24D7", "U+24D8", "U+24D9", "U+24DA", "U+24DB", "U+24DC", "U+24DD",
   "U+24DE", "U+24DF", "U+24E0", "U+24E1", "U+24E2", "U+24E3", "U+24E4",
   "U+24E5", "U+24E6", "U+24E7", "U+24E8", "U+24E9", "U+2C00", "U+2C01",
   "U+2C02", "U+2C03", "U+2C04", "U+2C05", "U+2C06", "U+2C07", "U+2C08",
   "U+2C09", "U+2C0A", "U+2C0B", "U+2C0C", "U+2C0D", "U+2C0E", "U+2C0F",
   "U+2C10", "U+2C11", "U+2C12", "U+2C13", "U+2C14", "U+2C15", "U+2C16",
   "U+2C17", "U+2C18", "U+2C19", "U+2C1A", "U+2C1B", "U+2C1C", "U+2C1D",
   "U+2C1E", "U+2C1F", "U+2C20", "U+2C21", "U+2C22", "U+2C23", "U+2C24",
   "U+2C25", "U+2C26", "U+2C27", "U+2C28", "U+2C29", "U+2C2A", "U+2C2B",
   "U+2C2C", "U+2C2D", "U+2C2E", "U+2C2F", "U+2C30", "U+2C31", "U+2C32",
   "U+2C33", "U+2C34", "U+2C35", "U+2C36", "U+2C37", "U+2C38", "U+2C39",
   "U+2C3A", "U+2C3B", "U+2C3C", "U+2C3D", "U+2C3E", "U+2C3F", "U+2C40",
   "U+2C41", "U+2C42", "U+2C43", "U+2C44", "U+2C45", "U+2C46", "U+2C47",
   "U+2C48", "U+2C49", "U+2C4A", "U+2C4B", "U+2C4C", "U+2C4D", "U+2C4E",
   "U+2C4F", "U+2C50", "U+2C51", "U+2C52", "U+2C53", "U+2C54", "U+2C55",
   "U+2C56", "U+2C57", "U+2C58", "U+2C59", "U+2C5A", "U+2C5B", "U+2C5C",
   "U+2C5D", "U+2C5E", "U+2C5F", "U+2C60", "U+2C61", "U+2C62", "U+2C63",
   "U+2C64", "U+2C65", "U+2C66", "U+2C67", "U+2C68", "U+2C69", "U+2C6A",
   "U+2C6B", "U+2C6C", "U+2C6D", "U+2C6E", "U+2C6F", "U+2C70", "U+2C71",
   "U+2C72", "U+2C73", "U+2C74", "U+2C75", "U+2C76", "U+2C77", "U+2C78",
   "U+2C79", "U+2C7A", "U+2C7B", "U+2C7E", "U+2C7F", "U+2C80", "U+2C81",
   "U+2C82", "U+2C83", "U+2C84", "U+2C85", "U+2C86", "U+2C87", "U+2C88",
   "U+2C89", "U+2C8A", "U+2C8B", "U+2C8C", "U+2C8D", "U+2C8E", "U+2C8F",
   "U+2C90", "U+2C91", "U+2C92", "U+2C93", "U+2C94", "U+2C95", "U+2C96",
   "U+2C97", "U+2C98", "U+2C99", "U+2C9A", "U+2C9B", "U+2C9C", "U+2C9D",
   "U+2C9E", "U+2C9F", "U+2CA0", "U+2CA1", "U+2CA2", "U+2CA3", "U+2CA4",
   "U+2CA5", "U+2CA6", "U+2CA7", "U+2CA8", "U+2CA9", "U+2CAA", "U+2CAB",
   "U+2CAC", "U+2CAD", "U+2CAE", "U+2CAF", "U+2CB0", "U+2CB1", "U+2CB2",
   "U+2CB3", "U+2CB4", "U+2CB5", "U+2CB6", "U+2CB7", "U+2CB8", "U+2CB9",
   "U+2CBA", "U+2CBB", "U+2CBC", "U+2CBD", "U+2CBE", "U+2CBF", "U+2CC0",
   "U+2CC1", "U+2CC2", "U+2CC3", "U+2CC4", "U+2CC5", "U+2CC6", "U+2CC7",
   "U+2CC8", "U+2CC9", "U+2CCA", "U+2CCB", "U+2CCC", "U+2CCD", "U+2CCE",
   "U+2CCF", "U+2CD0", "U+2CD1", "U+2CD2", "U+2CD3", "U+2CD4", "U+2CD5",
   "U+2CD6", "U+2CD7", "U+2CD8", "U+2CD9", "U+2CDA", "U+2CDB", "U+2CDC",
   "U+2CDD", "U+2CDE", "U+2CDF", "U+2CE0", "U+2CE1", "U+2CE2", "U+2CE3",
   "U+2CE4", "U+2CEB", "U+2CEC", "U+2CED", "U+2CEE", "U+2CF2", "U+2CF3",
   "U+2D00", "U+2D01", "U+2D02", "U+2D03", "U+2D04", "U+2D05", "U+2D06",
   "U+2D07", "U+2D08", "U+2D09", "U+2D0A", "U+2D0B", "U+2D0C", "U+2D0D",
   "U+2D0E", "U+2D0F", "U+2D10", "U+2D11", "U+2D12", "U+2D13", "U+2D14",
   "U+2D15", "U+2D16", "U+2D17", "U+2D18", "U+2D19", "U+2D1A", "U+2D1B",
   "U+2D1C", "U+2D1D", "U+2D1E", "U+2D1F", "U+2D20", "U+2D21", "U+2D22",
   "U+2D23", "U+2D24", "U+2D25", "U+2D27", "U+2D2D", "U+A640", "U+A641",
   "U+A642", "U+A643", "U+A644", "U+A645", "U+A646", "U+A647", "U+A648",
   "U+A649", "U+A64A", "U+A64B", "U+A64C", "U+A64D", "U+A64E", "U+A64F",
   "U+A650", "U+A651", "U+A652", "U+A653", "U+A654", "U+A655", "U+A656",
   "U+A657", "U+A658", "U+A659", "U+A65A", "U+A65B", "U+A65C", "U+A65D",
   "U+A65E", "U+A65F", "U+A660", "U+A661", "U+A662", "U+A663", "U+A664",
   "U+A665", "U+A666", "U+A667", "U+A668", "U+A669", "U+A66A", "U+A66B",
   "U+A66C", "U+A66D", "U+A680", "U+A681", "U+A682", "U+A683", "U+A684",
   "U+A685", "U+A686", "U+A687", "U+A688", "U+A689", "U+A68A", "U+A68B",
   "U+A68C", "U+A68D", "U+A68E", "U+A68F", "U+A690", "U+A691", "U+A692",
   "U+A693", "U+A694", "U+A695", "U+A696", "U+A697", "U+A698", "U+A699",
   "U+A69A", "U+A69B", "U+A722", "U+A723", "U+A724", "U+A725", "U+A726",
   "U+A727", "U+A728", "U+A729", "U+A72A", "U+A72B", "U+A72C", "U+A72D",
   "U+A72E", "U+A72F", "U+A730", "U+A731", "U+A732", "U+A733", "U+A734",
   "U+A735", "U+A736", "U+A737", "U+A738", "U+A739", "U+A73A", "U+A73B",
   "U+A73C", "U+A73D", "U+A73E", "U+A73F", "U+A740", "U+A741", "U+A742",
   "U+A743", "U+A744", "U+A745", "U+A746", "U+A747", "U+A748", "U+A749",
   "U+A74A", "U+A74B", "U+A74C", "U+A74D", "U+A74E", "U+A74F", "U+A750",
   "U+A751", "U+A752", "U+A753", "U+A754", "U+A755", "U+A756", "U+A757",
   "U+A758", "U+A759", "U+A75A", "U+A75B", "U+A75C", "U+A75D", "U+A75E",
   "U+A75F", "U+A760", "U+A761", "U+A762", "U+A763", "U+A764", "U+A765",
   "U+A766", "U+A767", "U+A768", "U+A769", "U+A76A", "U+A76B", "U+A76C",
   "U+A76D", "U+A76E", "U+A76F", "U+A771", "U+A772", "U+A773", "U+A774",
   "U+A775", "U+A776", "U+A777", "U+A778", "U+A779", "U+A77A", "U+A77B",
   "U+A77C", "U+A77D", "U+A77E", "U+A77F", "U+A780", "U+A781", "U+A782",
   "U+A783", "U+A784", "U+A785", "U+A786", "U+A787", "U+A78B", "U+A78C",
   "U+A78D", "U+A78E", "U+A790", "U+A791", "U+A792", "U+A793", "U+A794",
   "U+A795", "U+A796", "U+A797", "U+A798", "U+A799", "U+A79A", "U+A79B",
   "U+A79C", "U+A79D", "U+A79E", "U+A79F", "U+A7A0", "U+A7A1", "U+A7A2",
   "U+A7A3", "U+A7A4", "U+A7A5", "U+A7A6", "U+A7A7", "U+A7A8", "U+A7A9",
   "U+A7AA", "U+A7AB", "U+A7AC", "U+A7AD", "U+A7AE", "U+A7AF", "U+A7B0",
   "U+A7B1", "U+A7B2", "U+A7B3", "U+A7B4", "U+A7B5", "U+A7B6", "U+A7B7",
   "U+A7B8", "U+A7B9", "U+A7BA", "U+A7BB", "U+A7BC", "U+A7BD", "U+A7BE",
   "U+A7BF", "U+A7C0", "U+A7C1", "U+A7C2", "U+A7C3", "U+A7C4", "U+A7C5",
   "U+A7C6", "U+A7C7", "U+A7C8", "U+A7C9", "U+A7CA", "U+A7CB", "U+A7CC",
   "U+A7CD", "U+A7CE", "U+A7CF", "U+A7D0", "U+A7D1", "U+A7D2", "U+A7D3",
   "U+A7D4", "U+A7D5", "U+A7D6", "U+A7D7", "U+A7D8", "U+A7D9", "U+A7DA",
   "U+A7DB", "U+A7DC", "U+A7F5", "U+A7F6", "U+A7FA", "U+AB30", "U+AB31",
   "U+AB32", "U+AB33", "U+AB34", "U+AB35", "U+AB36", "U+AB37", "U+AB38",
   "U+AB39", "U+AB3A", "U+AB3B", "U+AB3C", "U+AB3D", "U+AB3E", "U+AB3F",
   "U+AB40", "U+AB41", "U+AB42", "U+AB43", "U+AB44", "U+AB45", "U+AB46",
   "U+AB47", "U+AB48", "U+AB49", "U+AB4A", "U+AB4B", "U+AB4C", "U+AB4D",
   "U+AB4E", "U+AB4F", "U+AB50", "U+AB51", "U+AB52", "U+AB53", "U+AB54",
   "U+AB55", "U+AB56", "U+AB57", "U+AB58", "U+AB59", "U+AB5A", "U+AB60",
   "U+AB61", "U+AB62", "U+AB63", "U+AB64", "U+AB65", "U+AB66", "U+AB67",
   "U+AB68", "U+AB70", "U+AB71", "U+AB72", "U+AB73", "U+AB74", "U+AB75",
   "U+AB76", "U+AB77", "U+AB78", "U+AB79", "U+AB7A", "U+AB7B", "U+AB7C",
   "U+AB7D", "U+AB7E", "U+AB7F", "U+AB80", "U+AB81", "U+AB82", "U+AB83",
   "U+AB84", "U+AB85", "U+AB86", "U+AB87", "U+AB88", "U+AB89", "U+AB8A",
   "U+AB8B", "U+AB8C", "U+AB8D", "U+AB8E", "U+AB8F", "U+AB90", "U+AB91",
   "U+AB92", "U+AB93", "U+AB94", "U+AB95", "U+AB96", "U+AB97", "U+AB98",
   "U+AB99", "U+AB9A", "U+AB9B", "U+AB9C", "U+AB9D", "U+AB9E", "U+AB9F",
   "U+ABA0", "U+ABA1", "U+ABA2", "U+ABA3", "U+ABA4", "U+ABA5", "U+ABA6",
   "U+ABA7", "U+ABA8", "U+ABA9", "U+ABAA", "U+ABAB", "U+ABAC", "U+ABAD",
   "U+ABAE", "U+ABAF", "U+ABB0", "U+ABB1", "U+ABB2", "U+ABB3", "U+ABB4",
   "U+ABB5", "U+ABB6", "U+ABB7", "U+ABB8", "U+ABB9", "U+ABBA", "U+ABBB",
   "U+ABBC", "U+ABBD", "U+ABBE", "U+ABBF", "U+FB00", "U+FB01", "U+FB02",
   "U+FB03", "U+FB04", "U+FB05", "U+FB06", "U+FB13", "U+FB14", "U+FB15",
   "U+FB16", "U+FB17", "U+FF21", "U+FF22", "U+FF23", "U+FF24", "U+FF25",
   "U+FF26", "U+FF27", "U+FF28", "U+FF29", "U+FF2A", "U+FF2B", "U+FF2C",
   "U+FF2D", "U+FF2E", "U+FF2F", "U+FF30", "U+FF31", "U+FF32", "U+FF33",
   "U+FF34", "U+FF35", "U+FF36", "U+FF37", "U+FF38", "U+FF39", "U+FF3A",
   "U+FF41", "U+FF42", "U+FF43", "U+FF44", "U+FF45", "U+FF46", "U+FF47",
   "U+FF48", "U+FF49", "U+FF4A", "U+FF4B", "U+FF4C", "U+FF4D", "U+FF4E",
   "U+FF4F", "U+FF50", "U+FF51", "U+FF52", "U+FF53", "U+FF54", "U+FF55",
   "U+FF56", "U+FF57", "U+FF58", "U+FF59", "U+FF5A", "U+D801U+DC00",
   "U+D801U+DC01", "U+D801U+DC02", "U+D801U+DC03", "U+D801U+DC04",
   "U+D801U+DC05", "U+D801U+DC06", "U+D801U+DC07", "U+D801U+DC08",
   "U+D801U+DC09", "U+D801U+DC0A", "U+D801U+DC0B", "U+D801U+DC0C",
   "U+D801U+DC0D", "U+D801U+DC0E", "U+D801U+DC0F", "U+D801U+DC10",
   "U+D801U+DC11", "U+D801U+DC12", "U+D801U+DC13", "U+D801U+DC14",
   "U+D801U+DC15", "U+D801U+DC16", "U+D801U+DC17", "U+D801U+DC18",
   "U+D801U+DC19", "U+D801U+DC1A", "U+D801U+DC1B", "U+D801U+DC1C",
   "U+D801U+DC1D", "U+D801U+DC1E", "U+D801U+DC1F", "U+D801U+DC20",
   "U+D801U+DC21", "U+D801U+DC22", "U+D801U+DC23", "U+D801U+DC24",
   "U+D801U+DC25", "U+D801U+DC26", "U+D801U+DC27", "U+D801U+DC28",
   "U+D801U+DC29", "U+D801U+DC2A", "U+D801U+DC2B", "U+D801U+DC2C",
   "U+D801U+DC2D", "U+D801U+DC2E", "U+D801U+DC2F", "U+D801U+DC30",
   "U+D801U+DC31", "U+D801U+DC32", "U+D801U+DC33", "U+D801U+DC34",
   "U+D801U+DC35", "U+D801U+DC36", "U+D801U+DC37", "U+D801U+DC38",
   "U+D801U+DC39", "U+D801U+DC3A", "U+D801U+DC3B", "U+D801U+DC3C",
   "U+D801U+DC3D", "U+D801U+DC3E", "U+D801U+DC3F", "U+D801U+DC40",
   "U+D801U+DC41", "U+D801U+DC42", "U+D801U+DC43", "U+D801U+DC44",
   "U+D801U+DC45", "U+D801U+DC46", "U+D801U+DC47", "U+D801U+DC48",
   "U+D801U+DC49", "U+D801U+DC4A", "U+D801U+DC4B", "U+D801U+DC4C",
   "U+D801U+DC4D", "U+D801U+DC4E", "U+D801U+DC4F", "U+D801U+DCB0",
   "U+D801U+DCB1", "U+D801U+DCB2", "U+D801U+DCB3", "U+D801U+DCB4",
   "U+D801U+DCB5", "U+D801U+DCB6", "U+D801U+DCB7", "U+D801U+DCB8",
   "U+D801U+DCB9", "U+D801U+DCBA", "U+D801U+DCBB", "U+D801U+DCBC",
   "U+D801U+DCBD", "U+D801U+DCBE", "U+D801U+DCBF", "U+D801U+DCC0",
   "U+D801U+DCC1", "U+D801U+DCC2", "U+D801U+DCC3", "U+D801U+DCC4",
   "U+D801U+DCC5", "U+D801U+DCC6", "U+D801U+DCC7", "U+D801U+DCC8",
   "U+D801U+DCC9", "U+D801U+DCCA", "U+D801U+DCCB", "U+D801U+DCCC",
   "U+D801U+DCCD", "U+D801U+DCCE", "U+D801U+DCCF", "U+D801U+DCD0",
   "U+D801U+DCD1", "U+D801U+DCD2", "U+D801U+DCD3", "U+D801U+DCD8",
   "U+D801U+DCD9", "U+D801U+DCDA", "U+D801U+DCDB", "U+D801U+DCDC",
   "U+D801U+DCDD", "U+D801U+DCDE", "U+D801U+DCDF", "U+D801U+DCE0",
   "U+D801U+DCE1", "U+D801U+DCE2", "U+D801U+DCE3", "U+D801U+DCE4",
   "U+D801U+DCE5", "U+D801U+DCE6", "U+D801U+DCE7", "U+D801U+DCE8",
   "U+D801U+DCE9", "U+D801U+DCEA", "U+D801U+DCEB", "U+D801U+DCEC",
   "U+D801U+DCED", "U+D801U+DCEE", "U+D801U+DCEF", "U+D801U+DCF0",
   "U+D801U+DCF1", "U+D801U+DCF2", "U+D801U+DCF3", "U+D801U+DCF4",
   "U+D801U+DCF5", "U+D801U+DCF6", "U+D801U+DCF7", "U+D801U+DCF8",
   "U+D801U+DCF9", "U+D801U+DCFA", "U+D801U+DCFB", "U+D801U+DD70",
   "U+D801U+DD71", "U+D801U+DD72", "U+D801U+DD73", "U+D801U+DD74",
   "U+D801U+DD75", "U+D801U+DD76", "U+D801U+DD77", "U+D801U+DD78",
   "U+D801U+DD79", "U+D801U+DD7A", "U+D801U+DD7C", "U+D801U+DD7D",
   "U+D801U+DD7E", "U+D801U+DD7F", "U+D801U+DD80", "U+D801U+DD81",
   "U+D801U+DD82", "U+D801U+DD83", "U+D801U+DD84", "U+D801U+DD85",
   "U+D801U+DD86", "U+D801U+DD87", "U+D801U+DD88", "U+D801U+DD89",
   "U+D801U+DD8A", "U+D801U+DD8C", "U+D801U+DD8D", "U+D801U+DD8E",
   "U+D801U+DD8F", "U+D801U+DD90", "U+D801U+DD91", "U+D801U+DD92",
   "U+D801U+DD94", "U+D801U+DD95", "U+D801U+DD97", "U+D801U+DD98",
   "U+D801U+DD99", "U+D801U+DD9A", "U+D801U+DD9B", "U+D801U+DD9C",
   "U+D801U+DD9D", "U+D801U+DD9E", "U+D801U+DD9F", "U+D801U+DDA0",
   "U+D801U+DDA1", "U+D801U+DDA3", "U+D801U+DDA4", "U+D801U+DDA5",
   "U+D801U+DDA6", "U+D801U+DDA7", "U+D801U+DDA8", "U+D801U+DDA9",
   "U+D801U+DDAA", "U+D801U+DDAB", "U+D801U+DDAC", "U+D801U+DDAD",
   "U+D801U+DDAE", "U+D801U+DDAF", "U+D801U+DDB0", "U+D801U+DDB1",
   "U+D801U+DDB3", "U+D801U+DDB4", "U+D801U+DDB5", "U+D801U+DDB6",
   "U+D801U+DDB7", "U+D801U+DDB8", "U+D801U+DDB9", "U+D801U+DDBB",
   "U+D801U+DDBC", "U+D803U+DC80", "U+D803U+DC81", "U+D803U+DC82",
   "U+D803U+DC83", "U+D803U+DC84", "U+D803U+DC85", "U+D803U+DC86",
   "U+D803U+DC87", "U+D803U+DC88", "U+D803U+DC89", "U+D803U+DC8A",
   "U+D803U+DC8B", "U+D803U+DC8C", "U+D803U+DC8D", "U+D803U+DC8E",
   "U+D803U+DC8F", "U+D803U+DC90", "U+D803U+DC91", "U+D803U+DC92",
   "U+D803U+DC93", "U+D803U+DC94", "U+D803U+DC95", "U+D803U+DC96",
   "U+D803U+DC97", "U+D803U+DC98", "U+D803U+DC99", "U+D803U+DC9A",
   "U+D803U+DC9B", "U+D803U+DC9C", "U+D803U+DC9D", "U+D803U+DC9E",
   "U+D803U+DC9F", "U+D803U+DCA0", "U+D803U+DCA1", "U+D803U+DCA2",
   "U+D803U+DCA3", "U+D803U+DCA4", "U+D803U+DCA5", "U+D803U+DCA6",
   "U+D803U+DCA7", "U+D803U+DCA8", "U+D803U+DCA9", "U+D803U+DCAA",
   "U+D803U+DCAB", "U+D803U+DCAC", "U+D803U+DCAD", "U+D803U+DCAE",
   "U+D803U+DCAF", "U+D803U+DCB0", "U+D803U+DCB1", "U+D803U+DCB2",
   "U+D803U+DCC0", "U+D803U+DCC1", "U+D803U+DCC2", "U+D803U+DCC3",
   "U+D803U+DCC4", "U+D803U+DCC5", "U+D803U+DCC6", "U+D803U+DCC7",
   "U+D803U+DCC8", "U+D803U+DCC9", "U+D803U+DCCA", "U+D803U+DCCB",
   "U+D803U+DCCC", "U+D803U+DCCD", "U+D803U+DCCE", "U+D803U+DCCF",
   "U+D803U+DCD0", "U+D803U+DCD1", "U+D803U+DCD2", "U+D803U+DCD3",
   "U+D803U+DCD4", "U+D803U+DCD5", "U+D803U+DCD6", "U+D803U+DCD7",
   "U+D803U+DCD8", "U+D803U+DCD9", "U+D803U+DCDA", "U+D803U+DCDB",
   "U+D803U+DCDC", "U+D803U+DCDD", "U+D803U+DCDE", "U+D803U+DCDF",
   "U+D803U+DCE0", "U+D803U+DCE1", "U+D803U+DCE2", "U+D803U+DCE3",
   "U+D803U+DCE4", "U+D803U+DCE5", "U+D803U+DCE6", "U+D803U+DCE7",
   "U+D803U+DCE8", "U+D803U+DCE9", "U+D803U+DCEA", "U+D803U+DCEB",
   "U+D803U+DCEC", "U+D803U+DCED", "U+D803U+DCEE", "U+D803U+DCEF",
   "U+D803U+DCF0", "U+D803U+DCF1", "U+D803U+DCF2", "U+D803U+DD50",
   "U+D803U+DD51", "U+D803U+DD52", "U+D803U+DD53", "U+D803U+DD54",
   "U+D803U+DD55", "U+D803U+DD56", "U+D803U+DD57", "U+D803U+DD58",
   "U+D803U+DD59", "U+D803U+DD5A", "U+D803U+DD5B", "U+D803U+DD5C",
   "U+D803U+DD5D", "U+D803U+DD5E", "U+D803U+DD5F", "U+D803U+DD60",
   "U+D803U+DD61", "U+D803U+DD62", "U+D803U+DD63", "U+D803U+DD64",
   "U+D803U+DD65", "U+D803U+DD70", "U+D803U+DD71", "U+D803U+DD72",
   "U+D803U+DD73", "U+D803U+DD74", "U+D803U+DD75", "U+D803U+DD76",
   "U+D803U+DD77", "U+D803U+DD78", "U+D803U+DD79", "U+D803U+DD7A",
   "U+D803U+DD7B", "U+D803U+DD7C", "U+D803U+DD7D", "U+D803U+DD7E",
   "U+D803U+DD7F", "U+D803U+DD80", "U+D803U+DD81", "U+D803U+DD82",
   "U+D803U+DD83", "U+D803U+DD84", "U+D803U+DD85", "U+D806U+DCA0",
   "U+D806U+DCA1", "U+D806U+DCA2", "U+D806U+DCA3", "U+D806U+DCA4",
   "U+D806U+DCA5", "U+D806U+DCA6", "U+D806U+DCA7", "U+D806U+DCA8",
   "U+D806U+DCA9", "U+D806U+DCAA", "U+D806U+DCAB", "U+D806U+DCAC",
   "U+D806U+DCAD", "U+D806U+DCAE", "U+D806U+DCAF", "U+D806U+DCB0",
   "U+D806U+DCB1", "U+D806U+DCB2", "U+D806U+DCB3", "U+D806U+DCB4",
   "U+D806U+DCB5", "U+D806U+DCB6", "U+D806U+DCB7", "U+D806U+DCB8",
   "U+D806U+DCB9", "U+D806U+DCBA", "U+D806U+DCBB", "U+D806U+DCBC",
   "U+D806U+DCBD", "U+D806U+DCBE", "U+D806U+DCBF", "U+D806U+DCC0",
   "U+D806U+DCC1", "U+D806U+DCC2", "U+D806U+DCC3", "U+D806U+DCC4",
   "U+D806U+DCC5", "U+D806U+DCC6", "U+D806U+DCC7", "U+D806U+DCC8",
   "U+D806U+DCC9", "U+D806U+DCCA", "U+D806U+DCCB", "U+D806U+DCCC",
   "U+D806U+DCCD", "U+D806U+DCCE", "U+D806U+DCCF", "U+D806U+DCD0",
   "U+D806U+DCD1", "U+D806U+DCD2", "U+D806U+DCD3", "U+D806U+DCD4",
   "U+D806U+DCD5", "U+D806U+DCD6", "U+D806U+DCD7", "U+D806U+DCD8",
   "U+D806U+DCD9", "U+D806U+DCDA", "U+D806U+DCDB", "U+D806U+DCDC",
   "U+D806U+DCDD", "U+D806U+DCDE", "U+D806U+DCDF", "U+D81BU+DE40",
   "U+D81BU+DE41", "U+D81BU+DE42", "U+D81BU+DE43", "U+D81BU+DE44",
   "U+D81BU+DE45", "U+D81BU+DE46", "U+D81BU+DE47", "U+D81BU+DE48",
   "U+D81BU+DE49", "U+D81BU+DE4A", "U+D81BU+DE4B", "U+D81BU+DE4C",
   "U+D81BU+DE4D", "U+D81BU+DE4E", "U+D81BU+DE4F", "U+D81BU+DE50",
   "U+D81BU+DE51", "U+D81BU+DE52", "U+D81BU+DE53", "U+D81BU+DE54",
   "U+D81BU+DE55", "U+D81BU+DE56", "U+D81BU+DE57", "U+D81BU+DE58",
   "U+D81BU+DE59", "U+D81BU+DE5A", "U+D81BU+DE5B", "U+D81BU+DE5C",
   "U+D81BU+DE5D", "U+D81BU+DE5E", "U+D81BU+DE5F", "U+D81BU+DE60",
   "U+D81BU+DE61", "U+D81BU+DE62", "U+D81BU+DE63", "U+D81BU+DE64",
   "U+D81BU+DE65", "U+D81BU+DE66", "U+D81BU+DE67", "U+D81BU+DE68",
   "U+D81BU+DE69", "U+D81BU+DE6A", "U+D81BU+DE6B", "U+D81BU+DE6C",
   "U+D81BU+DE6D", "U+D81BU+DE6E", "U+D81BU+DE6F", "U+D81BU+DE70",
   "U+D81BU+DE71", "U+D81BU+DE72", "U+D81BU+DE73", "U+D81BU+DE74",
   "U+D81BU+DE75", "U+D81BU+DE76", "U+D81BU+DE77", "U+D81BU+DE78",
   "U+D81BU+DE79", "U+D81BU+DE7A", "U+D81BU+DE7B", "U+D81BU+DE7C",
   "U+D81BU+DE7D", "U+D81BU+DE7E", "U+D81BU+DE7F", "U+D81BU+DEA0",
   "U+D81BU+DEA1", "U+D81BU+DEA2", "U+D81BU+DEA3", "U+D81BU+DEA4",
   "U+D81BU+DEA5", "U+D81BU+DEA6", "U+D81BU+DEA7", "U+D81BU+DEA8",
   "U+D81BU+DEA9", "U+D81BU+DEAA", "U+D81BU+DEAB", "U+D81BU+DEAC",
   "U+D81BU+DEAD", "U+D81BU+DEAE", "U+D81BU+DEAF", "U+D81BU+DEB0",
   "U+D81BU+DEB1", "U+D81BU+DEB2", "U+D81BU+DEB3", "U+D81BU+DEB4",
   "U+D81BU+DEB5", "U+D81BU+DEB6", "U+D81BU+DEB7", "U+D81BU+DEB8",
   "U+D81BU+DEBB", "U+D81BU+DEBC", "U+D81BU+DEBD", "U+D81BU+DEBE",
   "U+D81BU+DEBF", "U+D81BU+DEC0", "U+D81BU+DEC1", "U+D81BU+DEC2",
   "U+D81BU+DEC3", "U+D81BU+DEC4", "U+D81BU+DEC5", "U+D81BU+DEC6",
   "U+D81BU+DEC7", "U+D81BU+DEC8", "U+D81BU+DEC9", "U+D81BU+DECA",
   "U+D81BU+DECB", "U+D81BU+DECC", "U+D81BU+DECD", "U+D81BU+DECE",
   "U+D81BU+DECF", "U+D81BU+DED0", "U+D81BU+DED1", "U+D81BU+DED2",
   "U+D81BU+DED3", "U+D835U+DC00", "U+D835U+DC01", "U+D835U+DC02",
   "U+D835U+DC03", "U+D835U+DC04", "U+D835U+DC05", "U+D835U+DC06",
   "U+D835U+DC07", "U+D835U+DC08", "U+D835U+DC09", "U+D835U+DC0A",
   "U+D835U+DC0B", "U+D835U+DC0C", "U+D835U+DC0D", "U+D835U+DC0E",
   "U+D835U+DC0F", "U+D835U+DC10", "U+D835U+DC11", "U+D835U+DC12",
   "U+D835U+DC13", "U+D835U+DC14", "U+D835U+DC15", "U+D835U+DC16",
   "U+D835U+DC17", "U+D835U+DC18", "U+D835U+DC19", "U+D835U+DC1A",
   "U+D835U+DC1B", "U+D835U+DC1C", "U+D835U+DC1D", "U+D835U+DC1E",
   "U+D835U+DC1F", "U+D835U+DC20", "U+D835U+DC21", "U+D835U+DC22",
   "U+D835U+DC23", "U+D835U+DC24", "U+D835U+DC25", "U+D835U+DC26",
   "U+D835U+DC27", "U+D835U+DC28", "U+D835U+DC29", "U+D835U+DC2A",
   "U+D835U+DC2B", "U+D835U+DC2C", "U+D835U+DC2D", "U+D835U+DC2E",
   "U+D835U+DC2F", "U+D835U+DC30", "U+D835U+DC31", "U+D835U+DC32",
   "U+D835U+DC33", "U+D835U+DC34", "U+D835U+DC35", "U+D835U+DC36",
   "U+D835U+DC37", "U+D835U+DC38", "U+D835U+DC39", "U+D835U+DC3A",
   "U+D835U+DC3B", "U+D835U+DC3C", "U+D835U+DC3D", "U+D835U+DC3E",
   "U+D835U+DC3F", "U+D835U+DC40", "U+D835U+DC41", "U+D835U+DC42",
   "U+D835U+DC43", "U+D835U+DC44", "U+D835U+DC45", "U+D835U+DC46",
   "U+D835U+DC47", "U+D835U+DC48", "U+D835U+DC49", "U+D835U+DC4A",
   "U+D835U+DC4B", "U+D835U+DC4C", "U+D835U+DC4D", "U+D835U+DC4E",
   "U+D835U+DC4F", "U+D835U+DC50", "U+D835U+DC51", "U+D835U+DC52",
   "U+D835U+DC53", "U+D835U+DC54", "U+D835U+DC56", "U+D835U+DC57",
   "U+D835U+DC58", "U+D835U+DC59", "U+D835U+DC5A", "U+D835U+DC5B",
   "U+D835U+DC5C", "U+D835U+DC5D", "U+D835U+DC5E", "U+D835U+DC5F",
   "U+D835U+DC60", "U+D835U+DC61", "U+D835U+DC62", "U+D835U+DC63",
   "U+D835U+DC64", "U+D835U+DC65", "U+D835U+DC66", "U+D835U+DC67",
   "U+D835U+DC68", "U+D835U+DC69", "U+D835U+DC6A", "U+D835U+DC6B",
   "U+D835U+DC6C", "U+D835U+DC6D", "U+D835U+DC6E", "U+D835U+DC6F",
   "U+D835U+DC70", "U+D835U+DC71", "U+D835U+DC72", "U+D835U+DC73",
   "U+D835U+DC74", "U+D835U+DC75", "U+D835U+DC76", "U+D835U+DC77",
   "U+D835U+DC78", "U+D835U+DC79", "U+D835U+DC7A", "U+D835U+DC7B",
   "U+D835U+DC7C", "U+D835U+DC7D", "U+D835U+DC7E", "U+D835U+DC7F",
   "U+D835U+DC80", "U+D835U+DC81", "U+D835U+DC82", "U+D835U+DC83",
   "U+D835U+DC84", "U+D835U+DC85", "U+D835U+DC86", "U+D835U+DC87",
   "U+D835U+DC88", "U+D835U+DC89", "U+D835U+DC8A", "U+D835U+DC8B",
   "U+D835U+DC8C", "U+D835U+DC8D", "U+D835U+DC8E", "U+D835U+DC8F",
   "U+D835U+DC90", "U+D835U+DC91", "U+D835U+DC92", "U+D835U+DC93",
   "U+D835U+DC94", "U+D835U+DC95", "U+D835U+DC96", "U+D835U+DC97",
   "U+D835U+DC98", "U+D835U+DC99", "U+D835U+DC9A", "U+D835U+DC9B",
   "U+D835U+DC9C", "U+D835U+DC9E", "U+D835U+DC9F", "U+D835U+DCA2",
   "U+D835U+DCA5", "U+D835U+DCA6", "U+D835U+DCA9", "U+D835U+DCAA",
   "U+D835U+DCAB", "U+D835U+DCAC", "U+D835U+DCAE", "U+D835U+DCAF",
   "U+D835U+DCB0", "U+D835U+DCB1", "U+D835U+DCB2", "U+D835U+DCB3",
   "U+D835U+DCB4", "U+D835U+DCB5", "U+D835U+DCB6", "U+D835U+DCB7",
   "U+D835U+DCB8", "U+D835U+DCB9", "U+D835U+DCBB", "U+D835U+DCBD",
   "U+D835U+DCBE", "U+D835U+DCBF", "U+D835U+DCC0", "U+D835U+DCC1",
   "U+D835U+DCC2", "U+D835U+DCC3", "U+D835U+DCC5", "U+D835U+DCC6",
   "U+D835U+DCC7", "U+D835U+DCC8", "U+D835U+DCC9", "U+D835U+DCCA",
   "U+D835U+DCCB", "U+D835U+DCCC", "U+D835U+DCCD", "U+D835U+DCCE",
   "U+D835U+DCCF", "U+D835U+DCD0", "U+D835U+DCD1", "U+D835U+DCD2",
   "U+D835U+DCD3", "U+D835U+DCD4", "U+D835U+DCD5", "U+D835U+DCD6",
   "U+D835U+DCD7", "U+D835U+DCD8", "U+D835U+DCD9", "U+D835U+DCDA",
   "U+D835U+DCDB", "U+D835U+DCDC", "U+D835U+DCDD", "U+D835U+DCDE",
   "U+D835U+DCDF", "U+D835U+DCE0", "U+D835U+DCE1", "U+D835U+DCE2",
   "U+D835U+DCE3", "U+D835U+DCE4", "U+D835U+DCE5", "U+D835U+DCE6",
   "U+D835U+DCE7", "U+D835U+DCE8", "U+D835U+DCE9", "U+D835U+DCEA",
   "U+D835U+DCEB", "U+D835U+DCEC", "U+D835U+DCED", "U+D835U+DCEE",
   "U+D835U+DCEF", "U+D835U+DCF0", "U+D835U+DCF1", "U+D835U+DCF2",
   "U+D835U+DCF3", "U+D835U+DCF4", "U+D835U+DCF5", "U+D835U+DCF6",
   "U+D835U+DCF7", "U+D835U+DCF8", "U+D835U+DCF9", "U+D835U+DCFA",
   "U+D835U+DCFB", "U+D835U+DCFC", "U+D835U+DCFD", "U+D835U+DCFE",
   "U+D835U+DCFF", "U+D835U+DD00", "U+D835U+DD01", "U+D835U+DD02",
   "U+D835U+DD03", "U+D835U+DD04", "U+D835U+DD05", "U+D835U+DD07",
   "U+D835U+DD08", "U+D835U+DD09", "U+D835U+DD0A", "U+D835U+DD0D",
   "U+D835U+DD0E", "U+D835U+DD0F", "U+D835U+DD10", "U+D835U+DD11",
   "U+D835U+DD12", "U+D835U+DD13", "U+D835U+DD14", "U+D835U+DD16",
   "U+D835U+DD17", "U+D835U+DD18", "U+D835U+DD19", "U+D835U+DD1A",
   "U+D835U+DD1B", "U+D835U+DD1C", "U+D835U+DD1E", "U+D835U+DD1F",
   "U+D835U+DD20", "U+D835U+DD21", "U+D835U+DD22", "U+D835U+DD23",
   "U+D835U+DD24", "U+D835U+DD25", "U+D835U+DD26", "U+D835U+DD27",
   "U+D835U+DD28", "U+D835U+DD29", "U+D835U+DD2A", "U+D835U+DD2B",
   "U+D835U+DD2C", "U+D835U+DD2D", "U+D835U+DD2E", "U+D835U+DD2F",
   "U+D835U+DD30", "U+D835U+DD31", "U+D835U+DD32", "U+D835U+DD33",
   "U+D835U+DD34", "U+D835U+DD35", "U+D835U+DD36", "U+D835U+DD37",
   "U+D835U+DD38", "U+D835U+DD39", "U+D835U+DD3B", "U+D835U+DD3C",
   "U+D835U+DD3D", "U+D835U+DD3E", "U+D835U+DD40", "U+D835U+DD41",
   "U+D835U+DD42", "U+D835U+DD43", "U+D835U+DD44", "U+D835U+DD46",
   "U+D835U+DD4A", "U+D835U+DD4B", "U+D835U+DD4C", "U+D835U+DD4D",
   "U+D835U+DD4E", "U+D835U+DD4F", "U+D835U+DD50", "U+D835U+DD52",
   "U+D835U+DD53", "U+D835U+DD54", "U+D835U+DD55", "U+D835U+DD56",
   "U+D835U+DD57", "U+D835U+DD58", "U+D835U+DD59", "U+D835U+DD5A",
   "U+D835U+DD5B", "U+D835U+DD5C", "U+D835U+DD5D", "U+D835U+DD5E",
   "U+D835U+DD5F", "U+D835U+DD60", "U+D835U+DD61", "U+D835U+DD62",
   "U+D835U+DD63", "U+D835U+DD64", "U+D835U+DD65", "U+D835U+DD66",
   "U+D835U+DD67", "U+D835U+DD68", "U+D835U+DD69", "U+D835U+DD6A",
   "U+D835U+DD6B", "U+D835U+DD6C", "U+D835U+DD6D", "U+D835U+DD6E",
   "U+D835U+DD6F", "U+D835U+DD70", "U+D835U+DD71", "U+D835U+DD72",
   "U+D835U+DD73", "U+D835U+DD74", "U+D835U+DD75", "U+D835U+DD76",
   "U+D835U+DD77", "U+D835U+DD78", "U+D835U+DD79", "U+D835U+DD7A",
   "U+D835U+DD7B", "U+D835U+DD7C", "U+D835U+DD7D", "U+D835U+DD7E",
   "U+D835U+DD7F", "U+D835U+DD80", "U+D835U+DD81", "U+D835U+DD82",
   "U+D835U+DD83", "U+D835U+DD84", "U+D835U+DD85", "U+D835U+DD86",
   "U+D835U+DD87", "U+D835U+DD88", "U+D835U+DD89", "U+D835U+DD8A",
   "U+D835U+DD8B", "U+D835U+DD8C", "U+D835U+DD8D", "U+D835U+DD8E",
   "U+D835U+DD8F", "U+D835U+DD90", "U+D835U+DD91", "U+D835U+DD92",
   "U+D835U+DD93", "U+D835U+DD94", "U+D835U+DD95", "U+D835U+DD96",
   "U+D835U+DD97", "U+D835U+DD98", "U+D835U+DD99", "U+D835U+DD9A",
   "U+D835U+DD9B", "U+D835U+DD9C", "U+D835U+DD9D", "U+D835U+DD9E",
   "U+D835U+DD9F", "U+D835U+DDA0", "U+D835U+DDA1", "U+D835U+DDA2",
   "U+D835U+DDA3", "U+D835U+DDA4", "U+D835U+DDA5", "U+D835U+DDA6",
   "U+D835U+DDA7", "U+D835U+DDA8", "U+D835U+DDA9", "U+D835U+DDAA",
   "U+D835U+DDAB", "U+D835U+DDAC", "U+D835U+DDAD", "U+D835U+DDAE",
   "U+D835U+DDAF", "U+D835U+DDB0", "U+D835U+DDB1", "U+D835U+DDB2",
   "U+D835U+DDB3", "U+D835U+DDB4", "U+D835U+DDB5", "U+D835U+DDB6",
   "U+D835U+DDB7", "U+D835U+DDB8", "U+D835U+DDB9", "U+D835U+DDBA",
   "U+D835U+DDBB", "U+D835U+DDBC", "U+D835U+DDBD", "U+D835U+DDBE",
   "U+D835U+DDBF", "U+D835U+DDC0", "U+D835U+DDC1", "U+D835U+DDC2",
   "U+D835U+DDC3", "U+D835U+DDC4", "U+D835U+DDC5", "U+D835U+DDC6",
   "U+D835U+DDC7", "U+D835U+DDC8", "U+D835U+DDC9", "U+D835U+DDCA",
   "U+D835U+DDCB", "U+D835U+DDCC", "U+D835U+DDCD", "U+D835U+DDCE",
   "U+D835U+DDCF", "U+D835U+DDD0", "U+D835U+DDD1", "U+D835U+DDD2",
   "U+D835U+DDD3", "U+D835U+DDD4", "U+D835U+DDD5", "U+D835U+DDD6",
   "U+D835U+DDD7", "U+D835U+DDD8", "U+D835U+DDD9", "U+D835U+DDDA",
   "U+D835U+DDDB", "U+D835U+DDDC", "U+D835U+DDDD", "U+D835U+DDDE",
   "U+D835U+DDDF", "U+D835U+DDE0", "U+D835U+DDE1", "U+D835U+DDE2",
   "U+D835U+DDE3", "U+D835U+DDE4", "U+D835U+DDE5", "U+D835U+DDE6",
   "U+D835U+DDE7", "U+D835U+DDE8", "U+D835U+DDE9", "U+D835U+DDEA",
   "U+D835U+DDEB", "U+D835U+DDEC", "U+D835U+DDED", "U+D835U+DDEE",
   "U+D835U+DDEF", "U+D835U+DDF0", "U+D835U+DDF1", "U+D835U+DDF2",
   "U+D835U+DDF3", "U+D835U+DDF4", "U+D835U+DDF5", "U+D835U+DDF6",
   "U+D835U+DDF7", "U+D835U+DDF8", "U+D835U+DDF9", "U+D835U+DDFA",
   "U+D835U+DDFB", "U+D835U+DDFC", "U+D835U+DDFD", "U+D835U+DDFE",
   "U+D835U+DDFF", "U+D835U+DE00", "U+D835U+DE01", "U+D835U+DE02",
   "U+D835U+DE03", "U+D835U+DE04", "U+D835U+DE05", "U+D835U+DE06",
   "U+D835U+DE07", "U+D835U+DE08", "U+D835U+DE09", "U+D835U+DE0A",
   "U+D835U+DE0B", "U+D835U+DE0C", "U+D835U+DE0D", "U+D835U+DE0E",
   "U+D835U+DE0F", "U+D835U+DE10", "U+D835U+DE11", "U+D835U+DE12",
   "U+D835U+DE13", "U+D835U+DE14", "U+D835U+DE15", "U+D835U+DE16",
   "U+D835U+DE17", "U+D835U+DE18", "U+D835U+DE19", "U+D835U+DE1A",
   "U+D835U+DE1B", "U+D835U+DE1C", "U+D835U+DE1D", "U+D835U+DE1E",
   "U+D835U+DE1F", "U+D835U+DE20", "U+D835U+DE21", "U+D835U+DE22",
   "U+D835U+DE23", "U+D835U+DE24", "U+D835U+DE25", "U+D835U+DE26",
   "U+D835U+DE27", "U+D835U+DE28", "U+D835U+DE29", "U+D835U+DE2A",
   "U+D835U+DE2B", "U+D835U+DE2C", "U+D835U+DE2D", "U+D835U+DE2E",
   "U+D835U+DE2F", "U+D835U+DE30", "U+D835U+DE31", "U+D835U+DE32",
   "U+D835U+DE33", "U+D835U+DE34", "U+D835U+DE35", "U+D835U+DE36",
   "U+D835U+DE37", "U+D835U+DE38", "U+D835U+DE39", "U+D835U+DE3A",
   "U+D835U+DE3B", "U+D835U+DE3C", "U+D835U+DE3D", "U+D835U+DE3E",
   "U+D835U+DE3F", "U+D835U+DE40", "U+D835U+DE41", "U+D835U+DE42",
   "U+D835U+DE43", "U+D835U+DE44", "U+D835U+DE45", "U+D835U+DE46",
   "U+D835U+DE47", "U+D835U+DE48", "U+D835U+DE49", "U+D835U+DE4A",
   "U+D835U+DE4B", "U+D835U+DE4C", "U+D835U+DE4D", "U+D835U+DE4E",
   "U+D835U+DE4F", "U+D835U+DE50", "U+D835U+DE51", "U+D835U+DE52",
   "U+D835U+DE53", "U+D835U+DE54", "U+D835U+DE55", "U+D835U+DE56",
   "U+D835U+DE57", "U+D835U+DE58", "U+D835U+DE59", "U+D835U+DE5A",
   "U+D835U+DE5B", "U+D835U+DE5C", "U+D835U+DE5D", "U+D835U+DE5E",
   "U+D835U+DE5F", "U+D835U+DE60", "U+D835U+DE61", "U+D835U+DE62",
   "U+D835U+DE63", "U+D835U+DE64", "U+D835U+DE65", "U+D835U+DE66",
   "U+D835U+DE67", "U+D835U+DE68", "U+D835U+DE69", "U+D835U+DE6A",
   "U+D835U+DE6B", "U+D835U+DE6C", "U+D835U+DE6D", "U+D835U+DE6E",
   "U+D835U+DE6F", "U+D835U+DE70", "U+D835U+DE71", "U+D835U+DE72",
   "U+D835U+DE73", "U+D835U+DE74", "U+D835U+DE75", "U+D835U+DE76",
   "U+D835U+DE77", "U+D835U+DE78", "U+D835U+DE79", "U+D835U+DE7A",
   "U+D835U+DE7B", "U+D835U+DE7C", "U+D835U+DE7D", "U+D835U+DE7E",
   "U+D835U+DE7F", "U+D835U+DE80", "U+D835U+DE81", "U+D835U+DE82",
   "U+D835U+DE83", "U+D835U+DE84", "U+D835U+DE85", "U+D835U+DE86",
   "U+D835U+DE87", "U+D835U+DE88", "U+D835U+DE89", "U+D835U+DE8A",
   "U+D835U+DE8B", "U+D835U+DE8C", "U+D835U+DE8D", "U+D835U+DE8E",
   "U+D835U+DE8F", "U+D835U+DE90", "U+D835U+DE91", "U+D835U+DE92",
   "U+D835U+DE93", "U+D835U+DE94", "U+D835U+DE95", "U+D835U+DE96",
   "U+D835U+DE97", "U+D835U+DE98", "U+D835U+DE99", "U+D835U+DE9A",
   "U+D835U+DE9B", "U+D835U+DE9C", "U+D835U+DE9D", "U+D835U+DE9E",
   "U+D835U+DE9F", "U+D835U+DEA0", "U+D835U+DEA1", "U+D835U+DEA2",
   "U+D835U+DEA3", "U+D835U+DEA4", "U+D835U+DEA5", "U+D835U+DEA8",
   "U+D835U+DEA9", "U+D835U+DEAA", "U+D835U+DEAB", "U+D835U+DEAC",
   "U+D835U+DEAD", "U+D835U+DEAE", "U+D835U+DEAF", "U+D835U+DEB0",
   "U+D835U+DEB1", "U+D835U+DEB2", "U+D835U+DEB3", "U+D835U+DEB4",
   "U+D835U+DEB5", "U+D835U+DEB6", "U+D835U+DEB7", "U+D835U+DEB8",
   "U+D835U+DEB9", "U+D835U+DEBA", "U+D835U+DEBB", "U+D835U+DEBC",
   "U+D835U+DEBD", "U+D835U+DEBE", "U+D835U+DEBF", "U+D835U+DEC0",
   "U+D835U+DEC2", "U+D835U+DEC3", "U+D835U+DEC4", "U+D835U+DEC5",
   "U+D835U+DEC6", "U+D835U+DEC7", "U+D835U+DEC8", "U+D835U+DEC9",
   "U+D835U+DECA", "U+D835U+DECB", "U+D835U+DECC", "U+D835U+DECD",
   "U+D835U+DECE", "U+D835U+DECF", "U+D835U+DED0", "U+D835U+DED1",
   "U+D835U+DED2", "U+D835U+DED3", "U+D835U+DED4", "U+D835U+DED5",
   "U+D835U+DED6", "U+D835U+DED7", "U+D835U+DED8", "U+D835U+DED9",
   "U+D835U+DEDA", "U+D835U+DEDC", "U+D835U+DEDD", "U+D835U+DEDE",
   "U+D835U+DEDF", "U+D835U+DEE0", "U+D835U+DEE1", "U+D835U+DEE2",
   "U+D835U+DEE3", "U+D835U+DEE4", "U+D835U+DEE5", "U+D835U+DEE6",
   "U+D835U+DEE7", "U+D835U+DEE8", "U+D835U+DEE9", "U+D835U+DEEA",
   "U+D835U+DEEB", "U+D835U+DEEC", "U+D835U+DEED", "U+D835U+DEEE",
   "U+D835U+DEEF", "U+D835U+DEF0", "U+D835U+DEF1", "U+D835U+DEF2",
   "U+D835U+DEF3", "U+D835U+DEF4", "U+D835U+DEF5", "U+D835U+DEF6",
   "U+D835U+DEF7", "U+D835U+DEF8", "U+D835U+DEF9", "U+D835U+DEFA",
   "U+D835U+DEFC", "U+D835U+DEFD", "U+D835U+DEFE", "U+D835U+DEFF",
   "U+D835U+DF00", "U+D835U+DF01", "U+D835U+DF02", "U+D835U+DF03",
   "U+D835U+DF04", "U+D835U+DF05", "U+D835U+DF06", "U+D835U+DF07",
   "U+D835U+DF08", "U+D835U+DF09", "U+D835U+DF0A", "U+D835U+DF0B",
   "U+D835U+DF0C", "U+D835U+DF0D", "U+D835U+DF0E", "U+D835U+DF0F",
   "U+D835U+DF10", "U+D835U+DF11", "U+D835U+DF12", "U+D835U+DF13",
   "U+D835U+DF14", "U+D835U+DF16", "U+D835U+DF17", "U+D835U+DF18",
   "U+D835U+DF19", "U+D835U+DF1A", "U+D835U+DF1B", "U+D835U+DF1C",
   "U+D835U+DF1D", "U+D835U+DF1E", "U+D835U+DF1F", "U+D835U+DF20",
   "U+D835U+DF21", "U+D835U+DF22", "U+D835U+DF23", "U+D835U+DF24",
   "U+D835U+DF25", "U+D835U+DF26", "U+D835U+DF27", "U+D835U+DF28",
   "U+D835U+DF29", "U+D835U+DF2A", "U+D835U+DF2B", "U+D835U+DF2C",
   "U+D835U+DF2D", "U+D835U+DF2E", "U+D835U+DF2F", "U+D835U+DF30",
   "U+D835U+DF31", "U+D835U+DF32", "U+D835U+DF33", "U+D835U+DF34",
   "U+D835U+DF36", "U+D835U+DF37", "U+D835U+DF38", "U+D835U+DF39",
   "U+D835U+DF3A", "U+D835U+DF3B", "U+D835U+DF3C", "U+D835U+DF3D",
   "U+D835U+DF3E", "U+D835U+DF3F", "U+D835U+DF40", "U+D835U+DF41",
   "U+D835U+DF42", "U+D835U+DF43", "U+D835U+DF44", "U+D835U+DF45",
   "U+D835U+DF46", "U+D835U+DF47", "U+D835U+DF48", "U+D835U+DF49",
   "U+D835U+DF4A", "U+D835U+DF4B", "U+D835U+DF4C", "U+D835U+DF4D",
   "U+D835U+DF4E", "U+D835U+DF50", "U+D835U+DF51", "U+D835U+DF52",
   "U+D835U+DF53", "U+D835U+DF54", "U+D835U+DF55", "U+D835U+DF56",
   "U+D835U+DF57", "U+D835U+DF58", "U+D835U+DF59", "U+D835U+DF5A",
   "U+D835U+DF5B", "U+D835U+DF5C", "U+D835U+DF5D", "U+D835U+DF5E",
   "U+D835U+DF5F", "U+D835U+DF60", "U+D835U+DF61", "U+D835U+DF62",
   "U+D835U+DF63", "U+D835U+DF64", "U+D835U+DF65", "U+D835U+DF66",
   "U+D835U+DF67", "U+D835U+DF68", "U+D835U+DF69", "U+D835U+DF6A",
   "U+D835U+DF6B", "U+D835U+DF6C", "U+D835U+DF6D", "U+D835U+DF6E",
   "U+D835U+DF70", "U+D835U+DF71", "U+D835U+DF72", "U+D835U+DF73",
   "U+D835U+DF74", "U+D835U+DF75", "U+D835U+DF76", "U+D835U+DF77",
   "U+D835U+DF78", "U+D835U+DF79", "U+D835U+DF7A", "U+D835U+DF7B",
   "U+D835U+DF7C", "U+D835U+DF7D", "U+D835U+DF7E", "U+D835U+DF7F",
   "U+D835U+DF80", "U+D835U+DF81", "U+D835U+DF82", "U+D835U+DF83",
   "U+D835U+DF84", "U+D835U+DF85", "U+D835U+DF86", "U+D835U+DF87",
   "U+D835U+DF88", "U+D835U+DF8A", "U+D835U+DF8B", "U+D835U+DF8C",
   "U+D835U+DF8D", "U+D835U+DF8E", "U+D835U+DF8F", "U+D835U+DF90",
   "U+D835U+DF91", "U+D835U+DF92", "U+D835U+DF93", "U+D835U+DF94",
   "U+D835U+DF95", "U+D835U+DF96", "U+D835U+DF97", "U+D835U+DF98",
   "U+D835U+DF99", "U+D835U+DF9A", "U+D835U+DF9B", "U+D835U+DF9C",
   "U+D835U+DF9D", "U+D835U+DF9E", "U+D835U+DF9F", "U+D835U+DFA0",
   "U+D835U+DFA1", "U+D835U+DFA2", "U+D835U+DFA3", "U+D835U+DFA4",
   "U+D835U+DFA5", "U+D835U+DFA6", "U+D835U+DFA7", "U+D835U+DFA8",
   "U+D835U+DFAA", "U+D835U+DFAB", "U+D835U+DFAC", "U+D835U+DFAD",
   "U+D835U+DFAE", "U+D835U+DFAF", "U+D835U+DFB0", "U+D835U+DFB1",
   "U+D835U+DFB2", "U+D835U+DFB3", "U+D835U+DFB4", "U+D835U+DFB5",
   "U+D835U+DFB6", "U+D835U+DFB7", "U+D835U+DFB8", "U+D835U+DFB9",
   "U+D835U+DFBA", "U+D835U+DFBB", "U+D835U+DFBC", "U+D835U+DFBD",
   "U+D835U+DFBE", "U+D835U+DFBF", "U+D835U+DFC0", "U+D835U+DFC1",
   "U+D835U+DFC2", "U+D835U+DFC4", "U+D835U+DFC5", "U+D835U+DFC6",
   "U+D835U+DFC7", "U+D835U+DFC8", "U+D835U+DFC9", "U+D835U+DFCA",
   "U+D835U+DFCB", "U+D837U+DF00", "U+D837U+DF01", "U+D837U+DF02",
   "U+D837U+DF03", "U+D837U+DF04", "U+D837U+DF05", "U+D837U+DF06",
   "U+D837U+DF07", "U+D837U+DF08", "U+D837U+DF09", "U+D837U+DF0B",
   "U+D837U+DF0C", "U+D837U+DF0D", "U+D837U+DF0E", "U+D837U+DF0F",
   "U+D837U+DF10", "U+D837U+DF11", "U+D837U+DF12", "U+D837U+DF13",
   "U+D837U+DF14", "U+D837U+DF15", "U+D837U+DF16", "U+D837U+DF17",
   "U+D837U+DF18", "U+D837U+DF19", "U+D837U+DF1A", "U+D837U+DF1B",
   "U+D837U+DF1C", "U+D837U+DF1D", "U+D837U+DF1E", "U+D837U+DF25",
   "U+D837U+DF26", "U+D837U+DF27", "U+D837U+DF28", "U+D837U+DF29",
   "U+D837U+DF2A", "U+D83AU+DD00", "U+D83AU+DD01", "U+D83AU+DD02",
   "U+D83AU+DD03", "U+D83AU+DD04", "U+D83AU+DD05", "U+D83AU+DD06",
   "U+D83AU+DD07", "U+D83AU+DD08", "U+D83AU+DD09", "U+D83AU+DD0A",
   "U+D83AU+DD0B", "U+D83AU+DD0C", "U+D83AU+DD0D", "U+D83AU+DD0E",
   "U+D83AU+DD0F", "U+D83AU+DD10", "U+D83AU+DD11", "U+D83AU+DD12",
   "U+D83AU+DD13", "U+D83AU+DD14", "U+D83AU+DD15", "U+D83AU+DD16",
   "U+D83AU+DD17", "U+D83AU+DD18", "U+D83AU+DD19", "U+D83AU+DD1A",
   "U+D83AU+DD1B", "U+D83AU+DD1C", "U+D83AU+DD1D", "U+D83AU+DD1E",
   "U+D83AU+DD1F", "U+D83AU+DD20", "U+D83AU+DD21", "U+D83AU+DD22",
   "U+D83AU+DD23", "U+D83AU+DD24", "U+D83AU+DD25", "U+D83AU+DD26",
   "U+D83AU+DD27", "U+D83AU+DD28", "U+D83AU+DD29", "U+D83AU+DD2A",
   "U+D83AU+DD2B", "U+D83AU+DD2C", "U+D83AU+DD2D", "U+D83AU+DD2E",
   "U+D83AU+DD2F", "U+D83AU+DD30", "U+D83AU+DD31", "U+D83AU+DD32",
   "U+D83AU+DD33", "U+D83AU+DD34", "U+D83AU+DD35", "U+D83AU+DD36",
   "U+D83AU+DD37", "U+D83AU+DD38", "U+D83AU+DD39", "U+D83AU+DD3A",
   "U+D83AU+DD3B", "U+D83AU+DD3C", "U+D83AU+DD3D", "U+D83AU+DD3E",
   "U+D83AU+DD3F", "U+D83AU+DD40", "U+D83AU+DD41", "U+D83AU+DD42",
   "U+D83AU+DD43", "U+D83CU+DD30", "U+D83CU+DD31", "U+D83CU+DD32",
   "U+D83CU+DD33", "U+D83CU+DD34", "U+D83CU+DD35", "U+D83CU+DD36",
   "U+D83CU+DD37", "U+D83CU+DD38", "U+D83CU+DD39", "U+D83CU+DD3A",
   "U+D83CU+DD3B", "U+D83CU+DD3C", "U+D83CU+DD3D", "U+D83CU+DD3E",
   "U+D83CU+DD3F", "U+D83CU+DD40", "U+D83CU+DD41", "U+D83CU+DD42",
   "U+D83CU+DD43", "U+D83CU+DD44", "U+D83CU+DD45", "U+D83CU+DD46",
   "U+D83CU+DD47", "U+D83CU+DD48", "U+D83CU+DD49", "U+D83CU+DD50",
   "U+D83CU+DD51", "U+D83CU+DD52", "U+D83CU+DD53", "U+D83CU+DD54",
   "U+D83CU+DD55", "U+D83CU+DD56", "U+D83CU+DD57", "U+D83CU+DD58",
   "U+D83CU+DD59", "U+D83CU+DD5A", "U+D83CU+DD5B", "U+D83CU+DD5C",
   "U+D83CU+DD5D", "U+D83CU+DD5E", "U+D83CU+DD5F", "U+D83CU+DD60",
   "U+D83CU+DD61", "U+D83CU+DD62", "U+D83CU+DD63", "U+D83CU+DD64",
   "U+D83CU+DD65", "U+D83CU+DD66", "U+D83CU+DD67", "U+D83CU+DD68",
   "U+D83CU+DD69", "U+D83CU+DD70", "U+D83CU+DD71", "U+D83CU+DD72",
   "U+D83CU+DD73", "U+D83CU+DD74", "U+D83CU+DD75", "U+D83CU+DD76",
   "U+D83CU+DD77", "U+D83CU+DD78", "U+D83CU+DD79", "U+D83CU+DD7A",
   "U+D83CU+DD7B", "U+D83CU+DD7C", "U+D83CU+DD7D", "U+D83CU+DD7E",
   "U+D83CU+DD7F", "U+D83CU+DD80", "U+D83CU+DD81", "U+D83CU+DD82",
   "U+D83CU+DD83", "U+D83CU+DD84", "U+D83CU+DD85", "U+D83CU+DD86",
   "U+D83CU+DD87", "U+D83CU+DD88", "U+D83CU+DD89"}

\* The case-ignorable code points
CaseIgnorable ==
  {"'", ".", ":", "^", "U+0060", "U+00A8", "U+00AD", "U+00AF", "U+00B4",
   "U+00B7", "U+00B8", "U+02B0", "U+02B1", "U+02B2", "U+02B3", "U+02B4",
   "U+02B5", "U+02B6", "U+02B7", "U+02B8", "U+02B9", "U+02BA", "U+02BB",
   "U+02BC", "U+02BD", "U+02BE", "U+02BF", "U+02C0", "U+02C1", "U+02C2",
   "U+02C3", "U+02C4", "U+02C5", "U+02C6", "U+02C7", "U+02C8", "U+02C9",
   "U+02CA", "U+02CB", "U+02CC", "U+02CD", "U+02CE", "U+02CF", "U+02D0",
   "U+02D1", "U+02D2", "U+02D3", "U+02D4", "U+02D5", "U+02D6", "U+02D7",
   "U+02D8", "U+02D9", "U+02DA", "U+02DB", "U+02DC", "U+02DD", "U+02DE",
   "U+02DF", "U+02E0", "U+02E1", "U+02E2", "U+02E3", "U+02E4", "U+02E5",
   "U+02E6", "U+02E7", "U+02E8", "U+02E9", "U+02EA", "U+02EB", "U+02EC",
   "U+02ED", "U+02EE", "U+02EF", "U+02F0", "U+02F1", "U+02F2", "U+02F3",
   "U+02F4", "U+02F5", "U+02F6", "U+02F7", "U+02F8", "U+02F9", "U+02FA",
   "U+02FB", "U+02FC", "U+02FD", "U+02FE", "U+02FF", "U+0300", "U+0301",
   "U+0302", "U+0303", "U+0304", "U+0305", "U+0306", "U+0307", "U+0308",
   "U+0309", "U+030A", "U+030B", "U+030C", "U+030D", "U+030E", "U+030F",
   "U+0310", "U+0311", "U+0312", "U+0313", "U+0314", "U+0315", "U+0316",
   "U+0317", "U+0318", "U+0319", "U+031A", "U+031B", "U+031C", "U+031D",
   "U+031E", "U+031F", "U+0320", "U+0321", "U+0322", "U+0323", "U+0324",
   "U+0325", "U+0326", "U+0327", "U+0328", "U+0329", "U+032A", "U+032B",
   "U+032C", "U+032D", "U+032E", "U+032F", "U+0330", "U+0331", "U+0332",
   "U+0333", "U+0334", "U+0335", "U+0336", "U+0337", "U+0338", "U+0339",
   "U+033A", "U+033B", "U+033C", "U+033D", "U+033E", "U+033F", "U+0340",
   "U+0341", "U+0342", "U+0343", "U+0344", "U+0345", "U+0346", "U+0347",
   "U+0348", "U+0349", "U+034A", "U+034B", "U+034C", "U+034D", "U+034E",
   "U+034F", "U+0350", "U+0351", "U+0352", "U+0353", "U+0354", "U+0355",
   "U+0356", "U+0357", "U+0358", "U+0359", "U+035A", "U+035B", "U+035C",
   "U+035D", "U+035E", "U+035F", "U+0360", "U+0361", "U+0362", "U+0363",
   "U+0364", "U+0365", "U+0366", "U+0367", "U+0368", "U+0369", "U+036A",
   "U+036B", "U+036C", "U+036D", "U+036E", "U+036F", "U+0374", "U+0375",
   "U+037A", "U+0384", "U+0385", "U+0387", "U+0483", "U+0484", "U+0485",
   "U+0486", "U+0487", "U+0488", "U+0489", "U+0559", "U+055F", "U+0591",
   "U+0592", "U+0593", "U+0594", "U+0595", "U+0596", "U+0597", "U+0598",
   "U+0599", "U+059A", "U+059B", "U+059C", "U+059D", "U+059E", "U+059F",
   "U+05A0", "U+05A1", "U+05A2", "U+05A3", "U+05A4", "U+05A5", "U+05A6",
   "U+05A7", "U+05A8", "U+05A9", "U+05AA", "U+05AB", "U+05AC", "U+05AD",
   "U+05AE", "U+05AF", "U+05B0", "U+05B1", "U+05B2", "U+05B3", "U+05B4",
   "U+05B5", "U+05B6", "U+05B7", "U+05B8", "U+05B9", "U+05BA", "U+05BB",
   "U+05BC", "U+05BD", "U+05BF", "U+05C1", "U+05C2", "U+05C4", "U+05C5",
   "U+05C7", "U+05F4", "U+0600", "U+0601", "U+0602", "U+0603", "U+0604",
   "U+0605", "U+0610", "U+0611", "U+0612", "U+0613", "U+0614", "U+0615",
   "U+0616", "U+0617", "U+0618", "U+0619", "U+061A", "U+061C", "U+0640",
   "U+064B", "U+064C", "U+064D", "U+064E", "U+064F", "U+0650", "U+0651",
   "U+0652", "U+0653", "U+0654", "U+0655", "U+0656", "U+0657", "U+0658",
   "U+0659", "U+065A", "U+065B", "U+065C", "U+065D", "U+065E", "U+065F",
   "U+0670", "U+06D6", "U+06D7", "U+06D8", "U+06D9", "U+06DA", "U+06DB",
   "U+06DC", "U+06DD", "U+06DF", "U+06E0", "U+06E1", "U+06E2", "U+06E3",
   "U+06E4", "U+06E5", "U+06E6", "U+06E7", "U+06E8", "U+06EA", "U+06EB",
   "U+06EC", "U+06ED", "U+070F", "U+0711", "U+0730", "U+0731", "U+0732",
   "U+0733", "U+0734", "U+0735", "U+0736", "U+0737", "U+0738", "U+0739",
   "U+073A", "U+073B", "U+073C", "U+073D", "U+073E", "U+073F", "U+0740",
   "U+0741", "U+0742", "U+0743", "U+0744", "U+0745", "U+0746", "U+0747",
   "U+0748", "U+0749", "U+074A", "U+07A6", "U+07A7", "U+07A8", "U+07A9",
   "U+07AA", "U+07AB", "U+07AC", "U+07AD", "U+07AE", "U+07AF", "U+07B0",
   "U+07EB", "U+07EC", "U+07ED", "U+07EE", "U+07EF", "U+07F0", "U+07F1",
   "U+07F2", "U+07F3", "U+07F4", "U+07F5", "U+07FA", "U+07FD", "U+0816",
   "U+0817", "U+0818", "U+0819", "U+081A", "U+081B", "U+081C", "U+081D",
   "U+081E", "U+081F", "U+0820", "U+0821", "U+0822", "U+0823", "U+0824",
   "U+0825", "U+0826", "U+0827", "U+0828", "U+0829", "U+082A", "U+082B",
   "U+082C", "U+082D", "U+0859", "U+085A", "U+085B", "U+0888", "U+0890",
   "U+0891", "U+0897", "U+0898", "U+0899", "U+089A", "U+089B", "U+089C",
   "U+089D", "U+089E", "U+089F", "U+08C9", "U+08CA", "U+08CB", "U+08CC",
   "U+08CD", "U+08CE", "U+08CF", "U+08D0", "U+08D1", "U+08D2", "U+08D3",
   "U+08D4", "U+08D5", "U+08D6", "U+08D7", "U+08D8", "U+08D9", "U+08DA",
   "U+08DB", "U+08DC", "U+08DD", "U+08DE", "U+08DF", "U+08E0", "U+08E1",
   "U+08E2", "U+08E3", "U+08E4", "U+08E5", "U+08E6", "U+08E7", "U+08E8",
   "U+08E9", "U+08EA", "U+08EB", "U+08EC", "U+08ED", "U+08EE", "U+08EF",
   "U+08F0", "U+08F1", "U+08F2", "U+08F3", "U+08F4", "U+08F5", "U+08F6",
   "U+08F7", "U+08F8", "U+08F9", "U+08FA", "U+08FB", "U+08FC", "U+08FD",
   "U+08FE", "U+08FF", "U+0900", "U+0901", "U+0902", "U+093A", "U+093C",
   "U+0941", "U+0942", "U+0943", "U+0944", "U+0945", "U+0946", "U+0947",
   "U+0948", "U+094D", "U+0951", "U+0952", "U+0953", "U+0954", "U+0955",
   "U+0956", "U+0957", "U+0962", "U+0963", "U+0971", "U+0981", "U+09BC",
   "U+09C1", "U+09C2", "U+09C3", "U+09C4", "U+09CD", "U+09E2", "U+09E3",
   "U+09FE", "U+0A01", "U+0A02", "U+0A3C", "U+0A41", "U+0A42", "U+0A47",
   "U+0A48", "U+0A4B", "U+0A4C", "U+0A4D", "U+0A51", "U+0A70", "U+0A71",
   "U+0A75", "U+0A81", "U+0A82", "U+0ABC", "U+0AC1", "U+0AC2", "U+0AC3",
   "U+0AC4", "U+0AC5", "U+0AC7", "U+0AC8", "U+0ACD", "U+0AE2", "U+0AE3",
   "U+0AFA", "U+0AFB", "U+0AFC", "U+0AFD", "U+0AFE", "U+0AFF", "U+0B01",
   "U+0B3C", "U+0B3F", "U+0B41", "U+0B42", "U+0B43", "U+0B44", "U+0B4D",
   "U+0B55", "U+0B56", "U+0B62", "U+0B63", "U+0B82", "U+0BC0", "U+0BCD",
   "U+0C00", "U+0C04", "U+0C3C", "U+0C3E", "U+0C3F", "U+0C40", "U+0C46",
   "U+0C47", "U+0C48", "U+0C4A", "U+0C4B", "U+0C4C", "U+0C4D", "U+0C55",
   "U+0C56", "U+0C62", "U+0C63", "U+0C81", "U+0CBC", "U+0CBF", "U+0CC6",
   "U+0CCC", "U+0CCD", "U+0CE2", "U+0CE3", "U+0D00", "U+0D01", "U+0D3B",
   "U+0D3C", "U+0D41", "U+0D42", "U+0D43", "U+0D44", "U+0D4D", "U+0D62",
   "U+0D63", "U+0D81", "U+0DCA", "U+0DD2", "U+0DD3", "U+0DD4", "U+0DD6",
   "U+0E31", "U+0E34", "U+0E35", "U+0E36", "U+0E37", "U+0E38", "U+0E39",
   "U+0E3A", "U+0E46", "U+0E47", "U+0E48", "U+0E49", "U+0E4A", "U+0E4B",
   "U+0E4C", "U+0E4D", "U+0E4E", "U+0EB1", "U+0EB4", "U+0EB5", "U+0EB6",
   "U+0EB7", "U+0EB8", "U+0EB9", "U+0EBA", "U+0EBB", "U+0EBC", "U+0EC6",
   "U+0EC8", "U+0EC9", "U+0ECA", "U+0ECB", "U+0ECC", "U+0ECD", "U+0ECE",
   "U+0F18", "U+0F19", "U+0F35", "U+0F37", "U+0F39", "U+0F71", "U+0F72",
   "U+0F73", "U+0F74", "U+0F75", "U+0F76", "U+0F77", "U+0F78", "U+0F79",
   "U+0F7A", "U+0F7B", "U+0F7C", "U+0F7D", "U+0F7E", "U+0F80", "U+0F81",
   "U+0F82", "U+0F83", "U+0F84", "U+0F86", "U+0F87", "U+0F8D", "U+0F8E",
   "U+0F8F", "U+0F90", "U+0F91", "U+0F92", "U+0F93", "U+0F94", "U+0F95",
   "U+0F96", "U+0F97", "U+0F99", "U+0F9A", "U+0F9B", "U+0F9C", "U+0F9D",
   "U+0F9E", "U+0F9F", "U+0FA0", "U+0FA1", "U+0FA2", "U+0FA3", "U+0FA4",
   "U+0FA5", "U+0FA6", "U+0FA7", "U+0FA8", "U+0FA9", "U+0FAA", "U+0FAB",
   "U+0FAC", "U+0FAD", "U+0FAE", "U+0FAF", "U+0FB0", "U+0FB1", "U+0FB2",
   "U+0FB3", "U+0FB4", "U+0FB5", "U+0FB6", "U+0FB7", "U+0FB8", "U+0FB9",
   "U+0FBA", "U+0FBB", "U+0FBC", "U+0FC6", "U+102D", "U+102E", "U+102F",
   "U+1030", "U+1032", "U+1033", "U+1034", "U+1035", "U+1036", "U+1037",
   "U+1039", "U+103A", "U+103D", "U+103E", "U+1058", "U+1059", "U+105E",
   "U+105F", "U+1060", "U+1071", "U+1072", "U+1073", "U+1074", "U+1082",
   "U+1085", "U+1086", "U+108D", "U+109D", "U+10FC", "U+135D", "U+135E",
   "U+135F", "U+1712", "U+1713", "U+1714", "U+1732", "U+1733", "U+1752",
   "U+1753", "U+1772", "U+1773", "U+17B4", "U+17B5", "U+17B7", "U+17B8",
   "U+17B9", "U+17BA", "U+17BB", "U+17BC", "U+17BD", "U+17C6", "U+17C9",
   "U+17CA", "U+17CB", "U+17CC", "U+17CD", "U+17CE", "U+17CF", "U+17D0",
   "U+17D1", "U+17D2", "U+17D3", "U+17D7", "U+17DD", "U+180B", "U+180C",
   "U+180D", "U+180E", "U+180F", "U+1843", "U+1885", "U+1886", "U+18A9",
   "U+1920", "U+1921", "U+1922", "U+1927", "U+1928", "U+1932", "U+1939",
   "U+193A", "U+193B", "U+1A17", "U+1A18", "U+1A1B", "U+1A56", "U+1A58",
   "U+1A59", "U+1A5A", "U+1A5B", "U+1A5C", "U+1A5D", "U+1A5E", "U+1A60",
   "U+1A62", "U+1A65", "U+1A66", "U+1A67", "U+1A68", "U+1A69", "U+1A6A",
   "U+1A6B", "U+1A6C", "U+1A73", "U+1A74", "U+1A75", "U+1A76", "U+1A77",
   "U+1A78", "U+1A79", "U+1A7A", "U+1A7B", "U+1A7C", "U+1A7F", "U+1AA7",
   "U+1AB0", "U+1AB1", "U+1AB2", "U+1AB3", "U+1AB4", "U+1AB5", "U+1AB6",
   "U+1AB7", "U+1AB8", "U+1AB9", "U+1ABA", "U+1ABB", "U+1ABC", "U+1ABD",
   "U+1ABE", "U+1ABF", "U+1AC0", "U+1AC1", "U+1AC2", "U+1AC3", "U+1AC4",
   "U+1AC5", "U+1AC6", "U+1AC7", "U+1AC8", "U+1AC9", "U+1ACA", "U+1ACB",
   "U+1ACC", "U+1ACD", "U+1ACE", "U+1ACF", "U+1AD0", "U+1AD1", "U+1AD2",
   "U+1AD3", "U+1AD4", "U+1AD5", "U+1AD6", "U+1AD7", "U+1AD8", "U+1AD9",
   "U+1ADA", "U+1ADB", "U+1ADC", "U+1ADD", "U+1AE0", "U+1AE1", "U+1AE2",
   "U+1AE3", "U+1AE4", "U+1AE5", "U+1AE6", "U+1AE7", "U+1AE8", "U+1AE9",
   "U+1AEA", "U+1AEB", "U+1B00", "U+1B01", "U+1B02", "U+1B03", "U+1B34",
   "U+1B36", "U+1B37", "U+1B38", "U+1B39", "U+1B3A", "U+1B3C", "U+1B42",
   "U+1B6B", "U+1B6C", "U+1B6D", "U+1B6E", "U+1B6F", "U+1B70", "U+1B71",
   "U+1B72", "U+1B73", "U+1B80", "U+1B81", "U+1BA2", "U+1BA3", "U+1BA4",
   "U+1BA5", "U+1BA8", "U+1BA9", "U+1BAB", "U+1BAC", "U+1BAD", "U+1BE6",
   "U+1BE8", "U+1BE9", "U+1BED", "U+1BEF", "U+1BF0", "U+1BF1", "U+1C2C",
   "U+1C2D", "U+1C2E", "U+1C2F", "U+1C30", "U+1C31", "U+1C32", "U+1C33",
   "U+1C36", "U+1C37", "U+1C78", "U+1C79", "U+1C7A", "U+1C7B", "U+1C7C",
   "U+1C7D", "U+1CD0", "U+1CD1", "U+1CD2", "U+1CD4", "U+1CD5", "U+1CD6",
   "U+1CD7", "U+1CD8", "U+1CD9", "U+1CDA", "U+1CDB", "U+1CDC", "U+1CDD",
   "U+1CDE", "U+1CDF", "U+1CE0", "U+1CE2", "U+1CE3", "U+1CE4", "U+1CE5",
   "U+1CE6", "U+1CE7", "U+1CE8", "U+1CED", "U+1CF4", "U+1CF8", "U+1CF9",
   "U+1D2C", "U+1D2D", "U+1D2E", "U+1D2F", "U+1D30", "U+1D31", "U+1D32",
   "U+1D33", "U+1D34", "U+1D35", "U+1D36", "U+1D37", "U+1D38", "U+1D39",
   "U+1D3A", "U+1D3B", "U+1D3C", "U+1D3D", "U+1D3E", "U+1D3F", "U+1D40",
   "U+1D41", "U+1D42", "U+1D43", "U+1D44", "U+1D45", "U+1D46", "U+1D47",
   "U+1D48", "U+1D49", "U+1D4A", "U+1D4B", "U+1D4C", "U+1D4D", "U+1D4E",
   "U+1D4F", "U+1D50", "U+1D51", "U+1D52", "U+1D53", "U+1D54", "U+1D55",
   "U+1D56", "U+1D57", "U+1D58", "U+1D59", "U+1D5A", "U+1D5B", "U+1D5C",
   "U+1D5D", "U+1D5E", "U+1D5F", "U+1D60", "U+1D61", "U+1D62", "U+1D63",
   "U+1D64", "U+1D65", "U+1D66", "U+1D67", "U+1D68", "U+1D69", "U+1D6A",
   "U+1D78", "U+1D9B", "U+1D9C", "U+1D9D", "U+1D9E", "U+1D9F", "U+1DA0",
   "U+1DA1", "U+1DA2", "U+1DA3", "U+1DA4", "U+1DA5", "U+1DA6", "U+1DA7",
   "U+1DA8", "U+1DA9", "U+1DAA", "U+1DAB", "U+1DAC", "U+1DAD", "U+1DAE",
   "U+1DAF", "U+1DB0", "U+1DB1", "U+1DB2", "U+1DB3", "U+1DB4", "U+1DB5",
   "U+1DB6", "U+1DB7", "U+1DB8", "U+1DB9", "U+1DBA", "U+1DBB", "U+1DBC",
   "U+1DBD", "U+1DBE", "U+1DBF", "U+1DC0", "U+1DC1", "U+1DC2", "U+1DC3",
   "U+1DC4", "U+1DC5", "U+1DC6", "U+1DC7", "U+1DC8", "U+1DC9", "U+1DCA",
   "U+1DCB", "U+1DCC", "U+1DCD", "U+1DCE", "U+1DCF", "U+1DD0", "U+1DD1",
   "U+1DD2", "U+1DD3", "U+1DD4", "U+1DD5", "U+1DD6", "U+1DD7", "U+1DD8",
   "U+1DD9", "U+1DDA", "U+1DDB", "U+1DDC", "U+1DDD", "U+1DDE", "U+1DDF",
   "U+1DE0", "U+1DE1", "U+1DE2", "U+1DE3", "U+1DE4", "U+1DE5", "U+1DE6",
   "U+1DE7", "U+1DE8", "U+1DE9", "U+1DEA", "U+1DEB", "U+1DEC", "U+1DED",
   "U+1DEE", "U+1DEF", "U+1DF0", "U+1DF1", "U+1DF2", "U+1DF3", "U+1DF4",
   "U+1DF5", "U+1DF6", "U+1DF7", "U+1DF8", "U+1DF9", "U+1DFA", "U+1DFB",
   "U+1DFC", "U+1DFD", "U+1DFE", "U+1DFF", "U+1FBD", "U+1FBF", "U+1FC0",
   "U+1FC1", "U+1FCD", "U+1FCE", "U+1FCF", "U+1FDD", "U+1FDE", "U+1FDF",
   "U+1FED", "U+1FEE", "U+1FEF", "U+1FFD", "U+1FFE", "U+200B", "U+200C",
   "U+200D", "U+200E", "U+200F", "U+2018", "U+2019", "U+2024", "U+2027",
   "U+202A", "U+202B", "U+202C", "U+202D", "U+202E", "U+2060", "U+2061",
   "U+2062", "U+2063", "U+2064", "U+2066", "U+2067", "U+2068", "U+2069",
   "U+206A", "U+206B", "U+206C", "U+206D", "U+206E", "U+206F", "U+2071",
   "U+207F", "U+2090", "U+2091", "U+2092", "U+2093", "U+2094", "U+2095",
   "U+2096", "U+2097", "U+2098", "U+2099", "U+209A", "U+209B", "U+209C",
   "U+20D0", "U+20D1", "U+20D2", "U+20D3", "U+20D4", "U+20D5", "U+20D6",
   "U+20D7", "U+20D8", "U+20D9", "U+20DA", "U+20DB", "U+20DC", "U+20DD",
   "U+20DE", "U+20DF", "U+20E0", "U+20E1", "U+20E2", "U+20E3", "U+20E4",
   "U+20E5", "U+20E6", "U+20E7", "U+20E8", "U+20E9", "U+20EA", "U+20EB",
   "U+20EC", "U+20ED", "U+20EE", "U+20EF", "U+20F0", "U+2C7C", "U+2C7D",
   "U+2CEF", "U+2CF0", "U+2CF1", "U+2D6F", "U+2D7F", "U+2DE0", "U+2DE1",
   "U+2DE2", "U+2DE3", "U+2DE4", "U+2DE5", "U+2DE6", "U+2DE7", "U+2DE8",
   "U+2DE9", "U+2DEA", "U+2DEB", "U+2DEC", "U+2DED", "U+2DEE", "U+2DEF",
   "U+2DF0", "U+2DF1", "U+2DF2", "U+2DF3", "U+2DF4", "U+2DF5", "U+2DF6",
   "U+2DF7", "U+2DF8", "U+2DF9", "U+2DFA", "U+2DFB", "U+2DFC", "U+2DFD",
   "U+2DFE", "U+2DFF", "U+2E2F", "U+3005", "U+302A", "U+302B", "U+302C",
   "U+302D", "U+3031", "U+3032", "U+3033", "U+3034", "U+3035", "U+303B",
   "U+3099", "U+309A", "U+309B", "U+309C", "U+309D", "U+309E", "U+30FC",
   "U+30FD", "U+30FE", "U+A015", "U+A4F8", "U+A4F9", "U+A4FA", "U+A4FB",
   "U+A4FC", "U+A4FD", "U+A60C", "U+A66F", "U+A670", "U+A671", "U+A672",
   "U+A674", "U+A675", "U+A676", "U+A677", "U+A678", "U+A679", "U+A67A",
   "U+A67B", "U+A67C", "U+A67D", "U+A67F", "U+A69C", "U+A69D", "U+A69E",
   "U+A69F", "U+A6F0", "U+A6F1", "U+A700", "U+A701", "U+A702", "U+A703",
   "U+A704", "U+A705", "U+A706", "U+A707", "U+A708", "U+A709", "U+A70A",
   "U+A70B", "U+A70C", "U+A70D", "U+A70E", "U+A70F", "U+A710", "U+A711",
   "U+A712", "U+A713", "U+A714", "U+A715", "U+A716", "U+A717", "U+A718",
   "U+A719", "U+A71A", "U+A71B", "U+A71C", "U+A71D", "U+A71E", "U+A71F",
   "U+A720", "U+A721", "U+A770", "U+A788", "U+A789", "U+A78A", "U+A7F1",
   "U+A7F2", "U+A7F3", "U+A7F4", "U+A7F8", "U+A7F9", "U+A802", "U+A806",
   "U+A80B", "U+A825", "U+A826", "U+A82C", "U+A8C4", "U+A8C5", "U+A8E0",
   "U+A8E1", "U+A8E2", "U+A8E3", "U+A8E4", "U+A8E5", "U+A8E6", "U+A8E7",
   "U+A8E8", "U+A8E9", "U+A8EA", "U+A8EB", "U+A8EC", "U+A8ED", "U+A8EE",
   "U+A8EF", "U+A8F0", "U+A8F1", "U+A8FF", "U+A926", "U+A927", "U+A928",
   "U+A929", "U+A92A", "U+A92B", "U+A92C", "U+A92D", "U+A947", "U+A948",
   "U+A949", "U+A94A", "U+A94B", "U+A94C", "U+A94D", "U+A94E", "U+A94F",
   "U+A950", "U+A951", "U+A980", "U+A981", "U+A982", "U+A9B3", "U+A9B6",
   "U+A9B7", "U+A9B8", "U+A9B9", "U+A9BC", "U+A9BD", "U+A9CF", "U+A9E5",
   "U+A9E6", "U+AA29", "U+AA2A", "U+AA2B", "U+AA2C", "U+AA2D", "U+AA2E",
   "U+AA31", "U+AA32", "U+AA35", "U+AA36", "U+AA43", "U+AA4C", "U+AA70",
   "U+AA7C", "U+AAB0", "U+AAB2", "U+AAB3", "U+AAB4", "U+AAB7", "U+AAB8",
   "U+AABE", "U+AABF", "U+AAC1", "U+AADD", "U+AAEC", "U+AAED", "U+AAF3",
   "U+AAF4", "U+AAF6", "U+AB5B", "U+AB5C", "U+AB5D", "U+AB5E", "U+AB5F",
   "U+AB69", "U+AB6A", "U+AB6B", "U+ABE5", "U+ABE8", "U+ABED", "U+FB1E",
   "U+FBB2", "U+FBB3", "U+FBB4", "U+FBB5", "U+FBB6", "U+FBB7", "U+FBB8",
   "U+FBB9", "U+FBBA", "U+FBBB", "U+FBBC", "U+FBBD", "U+FBBE", "U+FBBF",
   "U+FBC0", "U+FBC1", "U+FBC2", "U+FE00", "U+FE01", "U+FE02", "U+FE03",
   "U+FE04", "U+FE05", "U+FE06", "U+FE07", "U+FE08", "U+FE09", "U+FE0A",
   "U+FE0B", "U+FE0C", "U+FE0D", "U+FE0E", "U+FE0F", "U+FE13", "U+FE20",
   "U+FE21", "U+FE22", "U+FE23", "U+FE24", "U+FE25", "U+FE26", "U+FE27",
   "U+FE28", "U+FE29", "U+FE2A", "U+FE2B", "U+FE2C", "U+FE2D", "U+FE2E",
   "U+FE2F", "U+FE52", "U+FE55", "U+FEFF", "U+FF07", "U+FF0E", "U+FF1A",
   "U+FF3E", "U+FF40", "U+FF70", "U+FF9E", "U+FF9F", "U+FFE3", "U+FFF9",
   "U+FFFA", "U+FFFB", "U+D800U+DDFD", "U+D800U+DEE0", "U+D800U+DF76",
   "U+D800U+DF77", "U+D800U+DF78", "U+D800U+DF79", "U+D800U+DF7A",
   "U+D801U+DF80", "U+D801U+DF81", "U+D801U+DF82", "U+D801U+DF83",
   "U+D801U+DF84", "U+D801U+DF85", "U+D801U+DF87", "U+D801U+DF88",
   "U+D801U+DF89", "U+D801U+DF8A", "U+D801U+DF8B", "U+D801U+DF8C",
   "U+D801U+DF8D", "U+D801U+DF8E", "U+D801U+DF8F", "U+D801U+DF90",
   "U+D801U+DF91", "U+D801U+DF92", "U+D801U+DF93", "U+D801U+DF94",
   "U+D801U+DF95", "U+D801U+DF96", "U+D801U+DF97", "U+D801U+DF98",
   "U+D801U+DF99", "U+D801U+DF9A", "U+D801U+DF9B", "U+D801U+DF9C",
   "U+D801U+DF9D", "U+D801U+DF9E", "U+D801U+DF9F", "U+D801U+DFA0",
   "U+D801U+DFA1", "U+D801U+DFA2", "U+D801U+DFA3", "U+D801U+DFA4",
   "U+D801U+DFA5", "U+D801U+DFA6", "U+D801U+DFA7", "U+D801U+DFA8",
   "U+D801U+DFA9", "U+D801U+DFAA", "U+D801U+DFAB", "U+D801U+DFAC",
   "U+D801U+DFAD", "U+D801U+DFAE", "U+D801U+DFAF", "U+D801U+DFB0",
   "U+D801U+DFB2", "U+D801U+DFB3", "U+D801U+DFB4", "U+D801U+DFB5",
   "U+D801U+DFB6", "U+D801U+DFB7", "U+D801U+DFB8", "U+D801U+DFB9",
   "U+D801U+DFBA", "U+D802U+DE01", "U+D802U+DE02", "U+D802U+DE03",
   "U+D802U+DE05", "U+D802U+DE06", "U+D802U+DE0C", "U+D802U+DE0D",
   "U+D802U+DE0E", "U+D802U+DE0F", "U+D802U+DE38", "U+D802U+DE39",
   "U+D802U+DE3A", "U+D802U+DE3F", "U+D802U+DEE5", "U+D802U+DEE6",
   "U+D803U+DD24", "U+D803U+DD25", "U+D803U+DD26", "U+D803U+DD27",
   "U+D803U+DD4E", "U+D803U+DD69", "U+D803U+DD6A", "U+D803U+DD6B",
   "U+D803U+DD6C", "U+D803U+DD6D", "U+D803U+DD6F", "U+D803U+DEAB",
   "U+D803U+DEAC", "U+D803U+DEC5", "U+D803U+DEFA", "U+D803U+DEFB",
   "U+D803U+DEFC", "U+D803U+DEFD", "U+D803U+DEFE", "U+D803U+DEFF",
   "U+D803U+DF46", "U+D803U+DF47", "U+D803U+DF48", "U+D803U+DF49",
   "U+D803U+DF4A", "U+D803U+DF4B", "U+D803U+DF4C", "U+D803U+DF4D",
   "U+D803U+DF4E", "U+D803U+DF4F", "U+D803U+DF50", "U+D803U+DF82",
   "U+D803U+DF83", "U+D803U+DF84", "U+D803U+DF85", "U+D804U+DC01",
   "U+D804U+DC38", "U+D804U+DC39", "U+D804U+DC3A", "U+D804U+DC3B",
   "U+D804U+DC3C", "U+D804U+DC3D", "U+D804U+DC3E", "U+D804U+DC3F",
   "U+D804U+DC40", "U+D804U+DC41", "U+D804U+DC42", "U+D804U+DC43",
   "U+D804U+DC44", "U+D804U+DC45", "U+D804U+DC46", "U+D804U+DC70",
   "U+D804U+DC73", "U+D804U+DC74", "U+D804U+DC7F", "U+D804U+DC80",
   "U+D804U+DC81", "U+D804U+DCB3", "U+D804U+DCB4", "U+D804U+DCB5",
   "U+D804U+DCB6", "U+D804U+DCB9", "U+D804U+DCBA", "U+D804U+DCBD",
   "U+D804U+DCC2", "U+D804U+DCCD", "U+D804U+DD00", "U+D804U+DD01",
   "U+D804U+DD02", "U+D804U+DD27", "U+D804U+DD28", "U+D804U+DD29",
   "U+D804U+DD2A", "U+D804U+DD2B", "U+D804U+DD2D", "U+D804U+DD2E",
   "U+D804U+DD2F", "U+D804U+DD30", "U+D804U+DD31", "U+D804U+DD32",
   "U+D804U+DD33", "U+D804U+DD34", "U+D804U+DD73", "U+D804U+DD80",
   "U+D804U+DD81", "U+D804U+DDB6", "U+D804U+DDB7", "U+D804U+DDB8",
   "U+D804U+DDB9", "U+D804U+DDBA", "U+D804U+DDBB", "U+D804U+DDBC",
   "U+D804U+DDBD", "U+D804U+DDBE", "U+D804U+DDC9", "U+D804U+DDCA",
   "U+D804U+DDCB", "U+D804U+DDCC", "U+D804U+DDCF", "U+D804U+DE2F",
   "U+D804U+DE30", "U+D804U+DE31", "U+D804U+DE34", "U+D804U+DE36",
   "U+D804U+DE37", "U+D804U+DE3E", "U+D804U+DE41", "U+D804U+DEDF",
   "U+D804U+DEE3", "U+D804U+DEE4", "U+D804U+DEE5", "U+D804U+DEE6",
   "U+D804U+DEE7", "U+D804U+DEE8", "U+D804U+DEE9", "U+D804U+DEEA",
   "U+D804U+DF00", "U+D804U+DF01", "U+D804U+DF3B", "U+D804U+DF3C",
   "U+D804U+DF40", "U+D804U+DF66", "U+D804U+DF67", "U+D804U+DF68",
   "U+D804U+DF69", "U+D804U+DF6A", "U+D804U+DF6B", "U+D804U+DF6C",
   "U+D804U+DF70", "U+D804U+DF71", "U+D804U+DF72", "U+D804U+DF73",
   "U+D804U+DF74", "U+D804U+DFBB", "U+D804U+DFBC", "U+D804U+DFBD",
   "U+D804U+DFBE", "U+D804U+DFBF", "U+D804U+DFC0", "U+D804U+DFCE",
   "U+D804U+DFD0", "U+D804U+DFD2", "U+D804U+DFE1", "U+D804U+DFE2",
   "U+D805U+DC38", "U+D805U+DC39", "U+D805U+DC3A", "U+D805U+DC3B",
   "U+D805U+DC3C", "U+D805U+DC3D", "U+D805U+DC3E", "U+D805U+DC3F",
   "U+D805U+DC42", "U+D805U+DC43", "U+D805U+DC44", "U+D805U+DC46",
   "U+D805U+DC5E", "U+D805U+DCB3", "U+D805U+DCB4", "U+D805U+DCB5",
   "U+D805U+DCB6", "U+D805U+DCB7", "U+D805U+DCB8", "U+D805U+DCBA",
   "U+D805U+DCBF", "U+D805U+DCC0", "U+D805U+DCC2", "U+D805U+DCC3",
   "U+D805U+DDB2", "U+D805U+DDB3", "U+D805U+DDB4", "U+D805U+DDB5",
   "U+D805U+DDBC", "U+D805U+DDBD", "U+D805U+DDBF", "U+D805U+DDC0",
   "U+D805U+DDDC", "U+D805U+DDDD", "U+D805U+DE33", "U+D805U+DE34",
   "U+D805U+DE35", "U+D805U+DE36", "U+D805U+DE37", "U+D805U+DE38",
   "U+D805U+DE39", "U+D805U+DE3A", "U+D805U+DE3D", "U+D805U+DE3F",
   "U+D805U+DE40", "U+D805U+DEAB", "U+D805U+DEAD", "U+D805U+DEB0",
   "U+D805U+DEB1", "U+D805U+DEB2", "U+D805U+DEB3", "U+D805U+DEB4",
   "U+D805U+DEB5", "U+D805U+DEB7", "U+D805U+DF1D", "U+D805U+DF1F",
   "U+D805U+DF22", "U+D805U+DF23", "U+D805U+DF24", "U+D805U+DF25",
   "U+D805U+DF27", "U+D805U+DF28", "U+D805U+DF29", "U+D805U+DF2A",
   "U+D805U+DF2B", "U+D806U+DC2F", "U+D806U+DC30", "U+D806U+DC31",
   "U+D806U+DC32", "U+D806U+DC33", "U+D806U+DC34", "U+D806U+DC35",
   "U+D806U+DC36", "U+D806U+DC37", "U+D806U+DC39", "U+D806U+DC3A",
   "U+D806U+DD3B", "U+D806U+DD3C", "U+D806U+DD3E", "U+D806U+DD43",
   "U+D806U+DDD4", "U+D806U+DDD5", "U+D806U+DDD6", "U+D806U+DDD7",
   "U+D806U+DDDA", "U+D806U+DDDB", "U+D806U+DDE0", "U+D806U+DE01",
   "U+D806U+DE02", "U+D806U+DE03", "U+D806U+DE04", "U+D806U+DE05",
   "U+D806U+DE06", "U+D806U+DE07", "U+D806U+DE08", "U+D806U+DE09",
   "U+D806U+DE0A", "U+D806U+DE33", "U+D806U+DE34", "U+D806U+DE35",
   "U+D806U+DE36", "U+D806U+DE37", "U+D806U+DE38", "U+D806U+DE3B",
   "U+D806U+DE3C", "U+D806U+DE3D", "U+D806U+DE3E", "U+D806U+DE47",
   "U+D806U+DE51", "U+D806U+DE52", "U+D806U+DE53", "U+D806U+DE54",
   "U+D806U+DE55", "U+D806U+DE56", "U+D806U+DE59", "U+D806U+DE5A",
   "U+D806U+DE5B", "U+D806U+DE8A", "U+D806U+DE8B", "U+D806U+DE8C",
   "U+D806U+DE8D", "U+D806U+DE8E", "U+D806U+DE8F", "U+D806U+DE90",
   "U+D806U+DE91", "U+D806U+DE92", "U+D806U+DE93", "U+D806U+DE94",
   "U+D806U+DE95", "U+D806U+DE96", "U+D806U+DE98", "U+D806U+DE99",
   "U+D806U+DF60", "U+D806U+DF62", "U+D806U+DF63", "U+D806U+DF64",
   "U+D806U+DF66", "U+D807U+DC30", "U+D807U+DC31", "U+D807U+DC32",
   "U+D807U+DC33", "U+D807U+DC34", "U+D807U+DC35", "U+D807U+DC36",
   "U+D807U+DC38", "U+D807U+DC39", "U+D807U+DC3A", "U+D807U+DC3B",
   "U+D807U+DC3C", "U+D807U+DC3D", "U+D807U+DC3F", "U+D807U+DC92",
   "U+D807U+DC93", "U+D807U+DC94", "U+D807U+DC95", "U+D807U+DC96",
   "U+D807U+DC97", "U+D807U+DC98", "U+D807U+DC99", "U+D807U+DC9A",
   "U+D807U+DC9B", "U+D807U+DC9C", "U+D807U+DC9D", "U+D807U+DC9E",
   "U+D807U+DC9F", "U+D807U+DCA0", "U+D807U+DCA1", "U+D807U+DCA2",
   "U+D807U+DCA3", "U+D807U+DCA4", "U+D807U+DCA5", "U+D807U+DCA6",
   "U+D807U+DCA7", "U+D807U+DCAA", "U+D807U+DCAB", "U+D807U+DCAC",
   "U+D807U+DCAD", "U+D807U+DCAE", "U+D807U+DCAF", "U+D807U+DCB0",
   "U+D807U+DCB2", "U+D807U+DCB3", "U+D807U+DCB5", "U+D807U+DCB6",
   "U+D807U+DD31", "U+D807U+DD32", "U+D807U+DD33", "U+D807U+DD34",
   "U+D807U+DD35", "U+D807U+DD36", "U+D807U+DD3A", "U+D807U+DD3C",
   "U+D807U+DD3D", "U+D807U+DD3F", "U+D807U+DD40", "U+D807U+DD41",
   "U+D807U+DD42", "U+D807U+DD43", "U+D807U+DD44", "U+D807U+DD45",
   "U+D807U+DD47", "U+D807U+DD90", "U+D807U+DD91", "U+D807U+DD95",
   "U+D807U+DD97", "U+D807U+DDD9", "U+D807U+DEF3", "U+D807U+DEF4",
   "U+D807U+DF00", "U+D807U+DF01", "U+D807U+DF36", "U+D807U+DF37",
   "U+D807U+DF38", "U+D807U+DF39", "U+D807U+DF3A", "U+D807U+DF40",
   "U+D807U+DF42", "U+D807U+DF5A", "U+D80DU+DC30", "U+D80DU+DC31",
   "U+D80DU+DC32", "U+D80DU+DC33", "U+D80DU+DC34", "U+D80DU+DC35",
   "U+D80DU+DC36", "U+D80DU+DC37", "U+D80DU+DC38", "U+D80DU+DC39",
   "U+D80DU+DC3A", "U+D80DU+DC3B", "U+D80DU+DC3C", "U+D80DU+DC3D",
   "U+D80DU+DC3E", "U+D80DU+DC3F", "U+D80DU+DC40", "U+D80DU+DC47",
   "U+D80DU+DC48", "U+D80DU+DC49", "U+D80DU+DC4A", "U+D80DU+DC4B",
   "U+D80DU+DC4C", "U+D80DU+DC4D", "U+D80DU+DC4E", "U+D80DU+DC4F",
   "U+D80DU+DC50", "U+D80DU+DC51", "U+D80DU+DC52", "U+D80DU+DC53",
   "U+D80DU+DC54", "U+D80DU+DC55", "U+D818U+DD1E", "U+D818U+DD1F",
   "U+D818U+DD20", "U+D818U+DD21", "U+D818U+DD22", "U+D818U+DD23",
   "U+D818U+DD24", "U+D818U+DD25", "U+D818U+DD26", "U+D818U+DD27",
   "U+D818U+DD28", "U+D818U+DD29", "U+D818U+DD2D", "U+D818U+DD2E",
   "U+D818U+DD2F", "U+D81AU+DEF0", "U+D81AU+DEF1", "U+D81AU+DEF2",
   "U+D81AU+DEF3", "U+D81AU+DEF4", "U+D81AU+DF30", "U+D81AU+DF31",
   "U+D81AU+DF32", "U+D81AU+DF33", "U+D81AU+DF34", "U+D81AU+DF35",
   "U+D81AU+DF36", "U+D81AU+DF40", "U+D81AU+DF41", "U+D81AU+DF42",
   "U+D81AU+DF43", "U+D81BU+DD40", "U+D81BU+DD41", "U+D81BU+DD42",
   "U+D81BU+DD6B", "U+D81BU+DD6C", "U+D81BU+DF4F", "U+D81BU+DF8F",
   "U+D81BU+DF90", "U+D81BU+DF91", "U+D81BU+DF92", "U+D81BU+DF93",
   "U+D81BU+DF94", "U+D81BU+DF95", "U+D81BU+DF96", "U+D81BU+DF97",
   "U+D81BU+DF98", "U+D81BU+DF99", "U+D81BU+DF9A", "U+D81BU+DF9B",
   "U+D81BU+DF9C", "U+D81BU+DF9D", "U+D81BU+DF9E", "U+D81BU+DF9F",
   "U+D81BU+DFE0", "U+D81BU+DFE1", "U+D81BU+DFE3", "U+D81BU+DFE4",
   "U+D81BU+DFF2", "U+D81BU+DFF3", "U+D82BU+DFF0", "U+D82BU+DFF1",
   "U+D82BU+DFF2", "U+D82BU+DFF3", "U+D82BU+DFF5", "U+D82BU+DFF6",
   "U+D82BU+DFF7", "U+D82BU+DFF8", "U+D82BU+DFF9", "U+D82BU+DFFA",
   "U+D82BU+DFFB", "U+D82BU+DFFD", "U+D82BU+DFFE", "U+D82FU+DC9D",
   "U+D82FU+DC9E", "U+D82FU+DCA0", "U+D82FU+DCA1", "U+D82FU+DCA2",
   "U+D82FU+DCA3", "U+D833U+DF00", "U+D833U+DF01", "U+D833U+DF02",
   "U+D833U+DF03", "U+D833U+DF04", "U+D833U+DF05", "U+D833U+DF06",
   "U+D833U+DF07", "U+D833U+DF08", "U+D833U+DF09", "U+D833U+DF0A",
   "U+D833U+DF0B", "U+D833U+DF0C", "U+D833U+DF0D", "U+D833U+DF0E",
   "U+D833U+DF0F", "U+D833U+DF10", "U+D833U+DF11", "U+D833U+DF12",
   "U+D833U+DF13", "U+D833U+DF14", "U+D833U+DF15", "U+D833U+DF16",
   "U+D833U+DF17", "U+D833U+DF18", "U+D833U+DF19", "U+D833U+DF1A",
   "U+D833U+DF1B", "U+D833U+DF1C", "U+D833U+DF1D", "U+D833U+DF1E",
   "U+D833U+DF1F", "U+D833U+DF20", "U+D833U+DF21", "U+D833U+DF22",
   "U+D833U+DF23", "U+D833U+DF24", "U+D833U+DF25", "U+D833U+DF26",
   "U+D833U+DF27", "U+D833U+DF28", "U+D833U+DF29", "U+D833U+DF2A",
   "U+D833U+DF2B", "U+D833U+DF2C", "U+D833U+DF2D", "U+D833U+DF30",
   "U+D833U+DF31", "U+D833U+DF32", "U+D833U+DF33", "U+D833U+DF34",
   "U+D833U+DF35", "U+D833U+DF36", "U+D833U+DF37", "U+D833U+DF38",
   "U+D833U+DF39", "U+D833U+DF3A", "U+D833U+DF3B", "U+D833U+DF3C",
   "U+D833U+DF3D", "U+D833U+DF3E", "U+D833U+DF3F", "U+D833U+DF40",
   "U+D833U+DF41", "U+D833U+DF42", "U+D833U+DF43", "U+D833U+DF44",
   "U+D833U+DF45", "U+D833U+DF46", "U+D834U+DD67", "U+D834U+DD68",
   "U+D834U+DD69", "U+D834U+DD73", "U+D834U+DD74", "U+D834U+DD75",
   "U+D834U+DD76", "U+D834U+DD77", "U+D834U+DD78", "U+D834U+DD79",
   "U+D834U+DD7A", "U+D834U+DD7B", "U+D834U+DD7C", "U+D834U+DD7D",
   "U+D834U+DD7E", "U+D834U+DD7F", "U+D834U+DD80", "U+D834U+DD81",
   "U+D834U+DD82", "U+D834U+DD85", "U+D834U+DD86", "U+D834U+DD87",
   "U+D834U+DD88", "U+D834U+DD89", "U+D834U+DD8A", "U+D834U+DD8B",
   "U+D834U+DDAA", "U+D834U+DDAB", "U+D834U+DDAC", "U+D834U+DDAD",
   "U+D834U+DE42", "U+D834U+DE43", "U+D834U+DE44", "U+D836U+DE00",
   "U+D836U+DE01", "U+D836U+DE02", "U+D836U+DE03", "U+D836U+DE04",
   "U+D836U+DE05", "U+D836U+DE06", "U+D836U+DE07", "U+D836U+DE08",
   "U+D836U+DE09", "U+D836U+DE0A", "U+D836U+DE0B", "U+D836U+DE0C",
   "U+D836U+DE0D", "U+D836U+DE0E", "U+D836U+DE0F", "U+D836U+DE10",
   "U+D836U+DE11", "U+D836U+DE12", "U+D836U+DE13", "U+D836U+DE14",
   "U+D836U+DE15", "U+D836U+DE16", "U+D836U+DE17", "U+D836U+DE18",
   "U+D836U+DE19", "U+D836U+DE1A", "U+D836U+DE1B", "U+D836U+DE1C",
   "U+D836U+DE1D", "U+D836U+DE1E", "U+D836U+DE1F", "U+D836U+DE20",
   "U+D836U+DE21", "U+D836U+DE22", "U+D836U+DE23", "U+D836U+DE24",
   "U+D836U+DE25", "U+D836U+DE26", "U+D836U+DE27", "U+D836U+DE28",
   "U+D836U+DE29", "U+D836U+DE2A", "U+D836U+DE2B", "U+D836U+DE2C",
   "U+D836U+DE2D", "U+D836U+DE2E", "U+D836U+DE2F", "U+D836U+DE30",
   "U+D836U+DE31", "U+D836U+DE32", "U+D836U+DE33", "U+D836U+DE34",
   "U+D836U+DE35", "U+D836U+DE36", "U+D836U+DE3B", "U+D836U+DE3C",
   "U+D836U+DE3D", "U+D836U+DE3E", "U+D836U+DE3F", "U+D836U+DE40",
   "U+D836U+DE41", "U+D836U+DE42", "U+D836U+DE43", "U+D836U+DE44",
   "U+D836U+DE45", "U+D836U+DE46", "U+D836U+DE47", "U+D836U+DE48",
   "U+D836U+DE49", "U+D836U+DE4A", "U+D836U+DE4B", "U+D836U+DE4C",
   "U+D836U+DE4D", "U+D836U+DE4E", "U+D836U+DE4F", "U+D836U+DE50",
   "U+D836U+DE51", "U+D836U+DE52", "U+D836U+DE53", "U+D836U+DE54",
   "U+D836U+DE55", "U+D836U+DE56", "U+D836U+DE57", "U+D836U+DE58",
   "U+D836U+DE59", "U+D836U+DE5A", "U+D836U+DE5B", "U+D836U+DE5C",
   "U+D836U+DE5D", "U+D836U+DE5E", "U+D836U+DE5F", "U+D836U+DE60",
   "U+D836U+DE61", "U+D836U+DE62", "U+D836U+DE63", "U+D836U+DE64",
   "U+D836U+DE65", "U+D836U+DE66", "U+D836U+DE67", "U+D836U+DE68",
   "U+D836U+DE69", "U+D836U+DE6A", "U+D836U+DE6B", "U+D836U+DE6C",
   "U+D836U+DE75", "U+D836U+DE84", "U+D836U+DE9B", "U+D836U+DE9C",
   "U+D836U+DE9D", "U+D836U+DE9E", "U+D836U+DE9F", "U+D836U+DEA1",
   "U+D836U+DEA2", "U+D836U+DEA3", "U+D836U+DEA4", "U+D836U+DEA5",
   "U+D836U+DEA6", "U+D836U+DEA7", "U+D836U+DEA8", "U+D836U+DEA9",
   "U+D836U+DEAA", "U+D836U+DEAB", "U+D836U+DEAC", "U+D836U+DEAD",
   "U+D836U+DEAE", "U+D836U+DEAF", "U+D838U+DC00", "U+D838U+DC01",
   "U+D838U+DC02", "U+D838U+DC03", "U+D838U+DC04", "U+D838U+DC05",
   "U+D838U+DC06", "U+D838U+DC08", "U+D838U+DC09", "U+D838U+DC0A",
   "U+D838U+DC0B", "U+D838U+DC0C", "U+D838U+DC0D", "U+D838U+DC0E",
   "U+D838U+DC0F", "U+D838U+DC10", "U+D838U+DC11", "U+D838U+DC12",
   "U+D838U+DC13", "U+D838U+DC14", "U+D838U+DC15", "U+D838U+DC16",
   "U+D838U+DC17", "U+D838U+DC18", "U+D838U+DC1B", "U+D838U+DC1C",
   "U+D838U+DC1D", "U+D838U+DC1E", "U+D838U+DC1F", "U+D838U+DC20",
   "U+D838U+DC21", "U+D838U+DC23", "U+D838U+DC24", "U+D838U+DC26",
   "U+D838U+DC27", "U+D838U+DC28", "U+D838U+DC29", "U+D838U+DC2A",
   "U+D838U+DC30", "U+D838U+DC31", "U+D838U+DC32", "U+D838U+DC33",
   "U+D838U+DC34", "U+D838U+DC35", "U+D838U+DC36", "U+D838U+DC37",
   "U+D838U+DC38", "U+D838U+DC39", "U+D838U+DC3A", "U+D838U+DC3B",
   "U+D838U+DC3C", "U+D838U+DC3D", "U+D838U+DC3E", "U+D838U+DC3F",
   "U+D838U+DC40", "U+D838U+DC41", "U+D838U+DC42", "U+D838U+DC43",
   "U+D838U+DC44", "U+D838U+DC45", "U+D838U+DC46", "U+D838U+DC47",
   "U+D838U+DC48", "U+D838U+DC49", "U+D838U+DC4A", "U+D838U+DC4B",
   "U+D838U+DC4C", "U+D838U+DC4D", "U+D838U+DC4E", "U+D838U+DC4F",
   "U+D838U+DC50", "U+D838U+DC51", "U+D838U+DC52", "U+D838U+DC53",
   "U+D838U+DC54", "U+D838U+DC55", "U+D838U+DC56", "U+D838U+DC57",
   "U+D838U+DC58", "U+D838U+DC59", "U+D838U+DC5A", "U+D838U+DC5B",
   "U+D838U+DC5C", "U+D838U+DC5D", "U+D838U+DC5E", "U+D838U+DC5F",
   "U+D838U+DC60", "U+D838U+DC61", "U+D838U+DC62", "U+D838U+DC63",
   "U+D838U+DC64", "U+D838U+DC65", "U+D838U+DC66", "U+D838U+DC67",
   "U+D838U+DC68", "U+D838U+DC69", "U+D838U+DC6A", "U+D838U+DC6B",
   "U+D838U+DC6C", "U+D838U+DC6D", "U+D838U+DC8F", "U+D838U+DD30",
   "U+D838U+DD31", "U+D838U+DD32", "U+D838U+DD33", "U+D838U+DD34",
   "U+D838U+DD35", "U+D838U+DD36", "U+D838U+DD37", "U+D838U+DD38",
   "U+D838U+DD39", "U+D838U+DD3A", "U+D838U+DD3B", "U+D838U+DD3C",
   "U+D838U+DD3D", "U+D838U+DEAE", "U+D838U+DEEC", "U+D838U+DEED",
   "U+D838U+DEEE", "U+D838U+DEEF", "U+D839U+DCEB", "U+D839U+DCEC",
   "U+D839U+DCED", "U+D839U+DCEE", "U+D839U+DCEF", "U+D839U+DDEE",
   "U+D839U+DDEF", "U+D839U+DEE3", "U+D839U+DEE6", "U+D839U+DEEE",
   "U+D839U+DEEF", "U+D839U+DEF5", "U+D839U+DEFF", "U+D83AU+DCD0",
   "U+D83AU+DCD1", "U+D83AU+DCD2", "U+D83AU+DCD3", "U+D83AU+DCD4",
   "U+D83AU+DCD5", "U+D83AU+DCD6", "U+D83AU+DD44", "U+D83AU+DD45",
   "U+D83AU+DD46", "U+D83AU+DD47", "U+D83AU+DD48", "U+D83AU+DD49",
   "U+D83AU+DD4A", "U+D83AU+DD4B", "U+D83CU+DFFB", "U+D83CU+DFFC",
   "U+D83CU+DFFD", "U+D83CU+DFFE", "U+D83CU+DFFF", "U+DB40U+DC01",
   "U+DB40U+DC20", "U+DB40U+DC21", "U+DB40U+DC22", "U+DB40U+DC23",
   "U+DB40U+DC24", "U+DB40U+DC25", "U+DB40U+DC26", "U+DB40U+DC27",
   "U+DB40U+DC28", "U+DB40U+DC29", "U+DB40U+DC2A", "U+DB40U+DC2B",
   "U+DB40U+DC2C", "U+DB40U+DC2D", "U+DB40U+DC2E", "U+DB40U+DC2F",
   "U+DB40U+DC30", "U+DB40U+DC31", "U+DB40U+DC32", "U+DB40U+DC33",
   "U+DB40U+DC34", "U+DB40U+DC35", "U+DB40U+DC36", "U+DB40U+DC37",
   "U+DB40U+DC38", "U+DB40U+DC39", "U+DB40U+DC3A", "U+DB40U+DC3B",
   "U+DB40U+DC3C", "U+DB40U+DC3D", "U+DB40U+DC3E", "U+DB40U+DC3F",
   "U+DB40U+DC40", "U+DB40U+DC41", "U+DB40U+DC42", "U+DB40U+DC43",
   "U+DB40U+DC44", "U+DB40U+DC45", "U+DB40U+DC46", "U+DB40U+DC47",
   "U+DB40U+DC48", "U+DB40U+DC49", "U+DB40U+DC4A", "U+DB40U+DC4B",
   "U+DB40U+DC4C", "U+DB40U+DC4D", "U+DB40U+DC4E", "U+DB40U+DC4F",
   "U+DB40U+DC50", "U+DB40U+DC51", "U+DB40U+DC52", "U+DB40U+DC53",
   "U+DB40U+DC54", "U+DB40U+DC55", "U+DB40U+DC56", "U+DB40U+DC57",
   "U+DB40U+DC58", "U+DB40U+DC59", "U+DB40U+DC5A", "U+DB40U+DC5B",
   "U+DB40U+DC5C", "U+DB40U+DC5D", "U+DB40U+DC5E", "U+DB40U+DC5F",
   "U+DB40U+DC60", "U+DB40U+DC61", "U+DB40U+DC62", "U+DB40U+DC63",
   "U+DB40U+DC64", "U+DB40U+DC65", "U+DB40U+DC66", "U+DB40U+DC67",
   "U+DB40U+DC68", "U+DB40U+DC69", "U+DB40U+DC6A", "U+DB40U+DC6B",
   "U+DB40U+DC6C", "U+DB40U+DC6D", "U+DB40U+DC6E", "U+DB40U+DC6F",
   "U+DB40U+DC70", "U+DB40U+DC71", "U+DB40U+DC72", "U+DB40U+DC73",
   "U+DB40U+DC74", "U+DB40U+DC75", "U+DB40U+DC76", "U+DB40U+DC77",
   "U+DB40U+DC78", "U+DB40U+DC79", "U+DB40U+DC7A", "U+DB40U+DC7B",
   "U+DB40U+DC7C", "U+DB40U+DC7D", "U+DB40U+DC7E", "U+DB40U+DC7F",
   "U+DB40U+DD00", "U+DB40U+DD01", "U+DB40U+DD02", "U+DB40U+DD03",
   "U+DB40U+DD04", "U+DB40U+DD05", "U+DB40U+DD06", "U+DB40U+DD07",
   "U+DB40U+DD08", "U+DB40U+DD09", "U+DB40U+DD0A", "U+DB40U+DD0B",
   "U+DB40U+DD0C", "U+DB40U+DD0D", "U+DB40U+DD0E", "U+DB40U+DD0F",
   "U+DB40U+DD10", "U+DB40U+DD11", "U+DB40U+DD12", "U+DB40U+DD13",
   "U+DB40U+DD14", "U+DB40U+DD15", "U+DB40U+DD16", "U+DB40U+DD17",
   "U+DB40U+DD18", "U+DB40U+DD19", "U+DB40U+DD1A", "U+DB40U+DD1B",
   "U+DB40U+DD1C", "U+DB40U+DD1D", "U+DB40U+DD1E", "U+DB40U+DD1F",
   "U+DB40U+DD20", "U+DB40U+DD21", "U+DB40U+DD22", "U+DB40U+DD23",
   "U+DB40U+DD24", "U+DB40U+DD25", "U+DB40U+DD26", "U+DB40U+DD27",
   "U+DB40U+DD28", "U+DB40U+DD29", "U+DB40U+DD2A", "U+DB40U+DD2B",
   "U+DB40U+DD2C", "U+DB40U+DD2D", "U+DB40U+DD2E", "U+DB40U+DD2F",
   "U+DB40U+DD30", "U+DB40U+DD31", "U+DB40U+DD32", "U+DB40U+DD33",
   "U+DB40U+DD34", "U+DB40U+DD35", "U+DB40U+DD36", "U+DB40U+DD37",
   "U+DB40U+DD38", "U+DB40U+DD39", "U+DB40U+DD3A", "U+DB40U+DD3B",
   "U+DB40U+DD3C", "U+DB40U+DD3D", "U+DB40U+DD3E", "U+DB40U+DD3F",
   "U+DB40U+DD40", "U+DB40U+DD41", "U+DB40U+DD42", "U+DB40U+DD43",
   "U+DB40U+DD44", "U+DB40U+DD45", "U+DB40U+DD46", "U+DB40U+DD47",
   "U+DB40U+DD48", "U+DB40U+DD49", "U+DB40U+DD4A", "U+DB40U+DD4B",
   "U+DB40U+DD4C", "U+DB40U+DD4D", "U+DB40U+DD4E", "U+DB40U+DD4F",
   "U+DB40U+DD50", "U+DB40U+DD51", "U+DB40U+DD52", "U+DB40U+DD53",
   "U+DB40U+DD54", "U+DB40U+DD55", "U+DB40U+DD56", "U+DB40U+DD57",
   "U+DB40U+DD58", "U+DB40U+DD59", "U+DB40U+DD5A", "U+DB40U+DD5B",
   "U+DB40U+DD5C", "U+DB40U+DD5D", "U+DB40U+DD5E", "U+DB40U+DD5F",
   "U+DB40U+DD60", "U+DB40U+DD61", "U+DB40U+DD62", "U+DB40U+DD63",
   "U+DB40U+DD64", "U+DB40U+DD65", "U+DB40U+DD66", "U+DB40U+DD67",
   "U+DB40U+DD68", "U+DB40U+DD69", "U+DB40U+DD6A", "U+DB40U+DD6B",
   "U+DB40U+DD6C", "U+DB40U+DD6D", "U+DB40U+DD6E", "U+DB40U+DD6F",
   "U+DB40U+DD70", "U+DB40U+DD71", "U+DB40U+DD72", "U+DB40U+DD73",
   "U+DB40U+DD74", "U+DB40U+DD75", "U+DB40U+DD76", "U+DB40U+DD77",
   "U+DB40U+DD78", "U+DB40U+DD79", "U+DB40U+DD7A", "U+DB40U+DD7B",
   "U+DB40U+DD7C", "U+DB40U+DD7D", "U+DB40U+DD7E", "U+DB40U+DD7F",
   "U+DB40U+DD80", "U+DB40U+DD81", "U+DB40U+DD82", "U+DB40U+DD83",
   "U+DB40U+DD84", "U+DB40U+DD85", "U+DB40U+DD86", "U+DB40U+DD87",
   "U+DB40U+DD88", "U+DB40U+DD89", "U+DB40U+DD8A", "U+DB40U+DD8B",
   "U+DB40U+DD8C", "U+DB40U+DD8D", "U+DB40U+DD8E", "U+DB40U+DD8F",
   "U+DB40U+DD90", "U+DB40U+DD91", "U+DB40U+DD92", "U+DB40U+DD93",
   "U+DB40U+DD94", "U+DB40U+DD95", "U+DB40U+DD96", "U+DB40U+DD97",
   "U+DB40U+DD98", "U+DB40U+DD99", "U+DB40U+DD9A", "U+DB40U+DD9B",
   "U+DB40U+DD9C", "U+DB40U+DD9D", "U+DB40U+DD9E", "U+DB40U+DD9F",
   "U+DB40U+DDA0", "U+DB40U+DDA1", "U+DB40U+DDA2", "U+DB40U+DDA3",
   "U+DB40U+DDA4", "U+DB40U+DDA5", "U+DB40U+DDA6", "U+DB40U+DDA7",
   "U+DB40U+DDA8", "U+DB40U+DDA9", "U+DB40U+DDAA", "U+DB40U+DDAB",
   "U+DB40U+DDAC", "U+DB40U+DDAD", "U+DB40U+DDAE", "U+DB40U+DDAF",
   "U+DB40U+DDB0", "U+DB40U+DDB1", "U+DB40U+DDB2", "U+DB40U+DDB3",
   "U+DB40U+DDB4", "U+DB40U+DDB5", "U+DB40U+DDB6", "U+DB40U+DDB7",
   "U+DB40U+DDB8", "U+DB40U+DDB9", "U+DB40U+DDBA", "U+DB40U+DDBB",
   "U+DB40U+DDBC", "U+DB40U+DDBD", "U+DB40U+DDBE", "U+DB40U+DDBF",
   "U+DB40U+DDC0", "U+DB40U+DDC1", "U+DB40U+DDC2", "U+DB40U+DDC3",
   "U+DB40U+DDC4", "U+DB40U+DDC5", "U+DB40U+DDC6", "U+DB40U+DDC7",
   "U+DB40U+DDC8", "U+DB40U+DDC9", "U+DB40U+DDCA", "U+DB40U+DDCB",
   "U+DB40U+DDCC", "U+DB40U+DDCD", "U+DB40U+DDCE", "U+DB40U+DDCF",
   "U+DB40U+DDD0", "U+DB40U+DDD1", "U+DB40U+DDD2", "U+DB40U+DDD3",
   "U+DB40U+DDD4", "U+DB40U+DDD5", "U+DB40U+DDD6", "U+DB40U+DDD7",
   "U+DB40U+DDD8", "U+DB40U+DDD9", "U+DB40U+DDDA", "U+DB40U+DDDB",
   "U+DB40U+DDDC", "U+DB40U+DDDD", "U+DB40U+DDDE", "U+DB40U+DDDF",
   "U+DB40U+DDE0", "U+DB40U+DDE1", "U+DB40U+DDE2", "U+DB40U+DDE3",
   "U+DB40U+DDE4", "U+DB40U+DDE5", "U+DB40U+DDE6", "U+DB40U+DDE7",
   "U+DB40U+DDE8", "U+DB40U+DDE9", "U+DB40U+DDEA", "U+DB40U+DDEB",
   "U+DB40U+DDEC", "U+DB40U+DDED", "U+DB40U+DDEE", "U+DB40U+DDEF"}

HexDigits == {"0", "1", "2", "3", "4", "5", "6", "7", "8", "9",
              "A", "B", "C", "D", "E", "F"}

\* The code units U+D800..U+DBFF
LeadSurrogates ==
  {"U+D" \o a \o b \o c : a \in {"8", "9", "A", "B"}, b \in HexDigits, c \in HexDigits}

\* The code units U+DC00..U+DFFF
TrailSurrogates ==
  {"U+D" \o a \o b \o c : a \in {"C", "D", "E", "F"}, b \in HexDigits, c \in HexDigits}

\* The code units of rows[from..to], the "" that fill the row left out
RowUnits(rows, from, to) ==
  SubSeq(rows, from, from + Cardinality({j \in from..to : rows[j] # ""}) - 1)

\* The function from the code point to the code units of the rows lo..hi of
\* a table of rows of width strings
RECURSIVE TableOf(_, _, _, _)
TableOf(rows, width, lo, hi) ==
  IF lo = hi
  THEN rows[width * (lo - 1) + 1] :> RowUnits(rows, width * (lo - 1) + 2, width * lo)
  ELSE LET mid == (lo + hi) \div 2
       IN  TableOf(rows, width, lo, mid) @@ TableOf(rows, width, mid + 1, hi)

LowerCaseMapping == TableOf(LowerCaseRows, 3, 1, Len(LowerCaseRows) \div 3)

UpperCaseMapping == TableOf(UpperCaseRows, 4, 1, Len(UpperCaseRows) \div 4)

LowerCaseKeys == DOMAIN LowerCaseMapping

UpperCaseKeys == DOMAIN UpperCaseMapping

\* The code points of a string, each the sequence of its code units: a lead
\* surrogate followed by a trail surrogate is one code point, any other
\* code unit is one by itself
RECURSIVE CodePoints(_)
CodePoints(str) ==
  IF str = <<>> THEN <<>>
  ELSE IF /\ Len(str) >= 2
          /\ str[1] \in LeadSurrogates
          /\ str[2] \in TrailSurrogates
       THEN <<SubSeq(str, 1, 2)>> \o CodePoints(SubSeq(str, 3, Len(str)))
       ELSE <<SubSeq(str, 1, 1)>> \o CodePoints(Tail(str))

CodePointKey(units) == IF Len(units) = 2 THEN units[1] \o units[2] ELSE units[1]

RECURSIVE ConcatAll(_)
ConcatAll(seqs) == IF seqs = <<>> THEN <<>> ELSE Head(seqs) \o ConcatAll(Tail(seqs))

\* Final_Sigma of SpecialCasing.txt: the sigma at place i comes after a cased
\* letter, case-ignorable code points apart, and no cased letter comes after
\* it, case-ignorable code points apart
FinalSigma(keys, i) ==
  LET before == {j \in 1..(i - 1) : keys[j] \notin CaseIgnorable}
      after == {j \in (i + 1)..Len(keys) : keys[j] \notin CaseIgnorable}
  IN  /\ before # {}
      /\ keys[CHOOSE j \in before : \A k \in before : k <= j] \in CasedLetters
      /\ \/ after = {}
         \/ keys[CHOOSE j \in after : \A k \in after : j <= k] \notin CasedLetters

\* String.prototype.toLowerCase
ToLowerCase(str) ==
  LET cps == CodePoints(str)
      keys == [i \in 1..Len(cps) |-> CodePointKey(cps[i])]
  IN  ConcatAll([i \in 1..Len(cps) |->
                   IF keys[i] = "U+03A3"
                   THEN IF FinalSigma(keys, i) THEN <<"U+03C2">> ELSE <<"U+03C3">>
                   ELSE IF keys[i] \in LowerCaseKeys THEN LowerCaseMapping[keys[i]]
                   ELSE cps[i]])

\* String.prototype.toUpperCase
ToUpperCase(str) ==
  LET cps == CodePoints(str)
  IN  ConcatAll([i \in 1..Len(cps) |->
                   IF CodePointKey(cps[i]) \in UpperCaseKeys
                   THEN UpperCaseMapping[CodePointKey(cps[i])]
                   ELSE cps[i]])

\* String.prototype.trim
Trim(str) ==
  IF \A i \in 1..Len(str) : str[i] \in Whitespace THEN <<>>
  ELSE LET first == CHOOSE i \in 1..Len(str) :
                      str[i] \notin Whitespace /\ \A j \in 1..(i - 1) : str[j] \in Whitespace
           last == CHOOSE i \in 1..Len(str) :
                     str[i] \notin Whitespace /\ \A j \in (i + 1)..Len(str) : str[j] \in Whitespace
       IN  SubSeq(str, first, last)

\* String.prototype.substring(0, n)
Substring0(str, n) == SubSeq(str, 1, IF n < Len(str) THEN n ELSE Len(str))

\* VALID_INSIGHT_TYPES
VALID_INSIGHT_TYPES ==
  { <<"f","u","n","d","a","m","e","n","t","a","l">>,
    <<"t","e","c","h","n","i","c","a","l">>,
    <<"m","a","c","r","o">>,
    <<"e","a","r","n","i","n","g","s">>,
    <<"r","i","s","k">>,
    <<"n","e","w","s">>,
    <<"s","e","n","t","i","m","e","n","t">> }

validateInsightType(type) ==
  IF type.t # "string" THEN NullStr
  ELSE LET normalized == Trim(ToLowerCase(type.s))
       IN  IF normalized \in VALID_INSIGHT_TYPES THEN StrVal(normalized) ELSE NullStr

\* str.split(sep), sep one code unit
RECURSIVE Split(_, _)
Split(str, sep) ==
  IF \A i \in 1..Len(str) : str[i] # sep THEN <<str>>
  ELSE LET i == CHOOSE k \in 1..Len(str) :
                  str[k] = sep /\ \A j \in 1..(k - 1) : str[j] # sep
       IN  <<SubSeq(str, 1, i - 1)>> \o Split(SubSeq(str, i + 1, Len(str)), sep)

\* words.join(sep)
RECURSIVE Join(_, _)
Join(words, sep) ==
  IF Len(words) = 1 THEN words[1]
  ELSE words[1] \o <<sep>> \o Join(Tail(words), sep)

\* w.charAt(0).toUpperCase() + w.slice(1).toLowerCase(): charAt(0) is one code
\* unit, the empty string for the empty word
TitleCaseWord(w) ==
  IF w = <<>> THEN <<>> ELSE ToUpperCase(<<w[1]>>) \o ToLowerCase(Tail(w))

\* trimmed.split(" ").map(w => w.charAt(0).toUpperCase() + w.slice(1).toLowerCase()).join(" ")
TitleCaseWords(str) ==
  LET words == Split(str, " ")
  IN  Join([i \in 1..Len(words) |-> TitleCaseWord(words[i])], " ")

validateSector(sector) ==
  IF sector.t # "string" THEN NullStr
  ELSE LET trimmed == Trim(sector.s)
       IN  IF Len(trimmed) = 0 \/ ToLowerCase(trimmed) = <<"u","n","k","n","o","w","n">>
           THEN NullStr
           ELSE StrVal(TitleCaseWords(trimmed))

SummaryMaxLen == 150
SummaryKeepLen == 147
Ellipsis == <<".", ".", ".">>

validateSummaryCutAtMax(summary) ==
  IF summary.t # "string" THEN NullStr
  ELSE LET trimmed == Trim(summary.s)
       IN  IF Len(trimmed) = 0 THEN NullStr
           ELSE IF Len(trimmed) > SummaryMaxLen
                THEN StrVal(Substring0(trimmed, SummaryMaxLen) \o Ellipsis)
                ELSE StrVal(trimmed)

validateSummary(summary) ==
  IF summary.t # "string" THEN NullStr
  ELSE LET trimmed == Trim(summary.s)
       IN  IF Len(trimmed) = 0 THEN NullStr
           ELSE IF Len(trimmed) > SummaryMaxLen
                THEN StrVal(Substring0(trimmed, SummaryKeepLen) \o Ellipsis)
                ELSE StrVal(trimmed)

getNullAnalysis ==
  [qualityScore |-> Absent, insightType |-> NullStr, sector |-> NullStr, summary |-> NullStr]

(***************************************************************************)
(* Outcomes of a call: it returns a value or it throws.                    *)
(***************************************************************************)
Return(val) == [kind |-> "return", value |-> val]
Throw == [kind |-> "throw", value |-> getNullAnalysis]

\* try { body } catch { return fallback }
TryCatch(body, fallback) == IF body.kind = "throw" THEN Return(fallback) ELSE body

(***************************************************************************)
(* Reply texts of the model.  "nojson": the text holds no {...}; "badjson":*)
(* it holds braces but JSON.parse throws; "json": JSON.parse gives an      *)
(* object whose four fields are in parsed.                                 *)
(***************************************************************************)
\* parseAnalysisResponse of lib/anthropic.ts
parseAnalysisResponse(text) ==
  TryCatch(
    IF text.kind = "nojson" THEN Return(getNullAnalysis)
    ELSE IF text.kind = "badjson" THEN Throw
    ELSE Return([qualityScore |-> validateQualityScore(text.parsed.qualityScore),
                 insightType |-> validateInsightType(text.parsed.insightType),
                 sector |-> validateSector(text.parsed.sector),
                 summary |-> validateSummary(text.parsed.summary)]),
    getNullAnalysis).value

\* parseAnalysisResponse of lib/gemini.ts: JSON.parse on the whole text.  A text
\* without an object either fails to parse or parses to a value without the
\* four fields (a number, a string) or to null, whose field read throws.
geminiParseAnalysisResponse(text) ==
  TryCatch(
    IF text.kind = "nojson" THEN Throw
    ELSE IF text.kind = "badjson" THEN Throw
    ELSE Return([qualityScore |-> validateQualityScore(text.parsed.qualityScore),
                 insightType |-> validateInsightType(text.parsed.insightType),
                 sector |-> validateSector(text.parsed.sector),
                 summary |-> validateSummary(text.parsed.summary)]),
    getNullAnalysis).value

(***************************************************************************)
(* analyzePost.  apiKey: the credential is configured.  The upstream call  *)
(* either throws ("error": network failure, rate limit, API error),        *)
(* answers with a first content block that is not text ("nontext"), or     *)
(* answers with a text ("text").                                           *)
(***************************************************************************)
analyzePostUncaught(apiKey, upstream) ==
  IF ~apiKey THEN Return(getNullAnalysis)
  ELSE IF upstream.kind = "error" THEN Throw
       ELSE IF upstream.kind = "nontext"
            THEN Return(parseAnalysisResponse([kind |-> "nojson"]))
            ELSE Return(parseAnalysisResponse(upstream.text))

\* analyzePost of lib/anthropic.ts
analyzePost(apiKey, upstream) ==
  IF ~apiKey THEN Return(getNullAnalysis)
  ELSE TryCatch(
         IF upstream.kind = "error" THEN Throw
         ELSE IF upstream.kind = "nontext"
              THEN Return(parseAnalysisResponse([kind |-> "nojson"]))
              ELSE Return(parseAnalysisResponse(upstream.text)),
         getNullAnalysis)

\* analyzePost of lib/gemini.ts ("nontext": response.text() throws on a reply
\* that carries no text)
geminiAnalyzePost(apiKey, upstream) ==
  IF ~apiKey THEN Return(getNullAnalysis)
  ELSE TryCatch(
         IF upstream.kind = "error" THEN Throw
         ELSE IF upstream.kind = "nontext" THEN Throw
              ELSE Return(geminiParseAnalysisResponse(upstream.text)),
         getNullAnalysis)

(***************************************************************************)
(* Inputs of the adapter: sample field values of a parsed reply.           *)
(***************************************************************************)
LongSummaryLen == 200

SampleScores == {Fin(14), Fin(7), Fin(-3), NaN, NotANumber}

SampleInsightTypes ==
  { StrVal(<<"E","A","R","N","I","N","G","S">>),
    StrVal(<<" ","N","e","w","s"," ">>),
    StrVal(<<"b","o","g","u","s">>),
    StrVal(<<"r","i","s","U+212A">>),
    NotAString }

SampleSectors ==
  { StrVal(<<"t","e","c","h","n","o","l","o","g","y">>),
    StrVal(<<" ","r","e","a","l"," ","E","S","T","A","T","E">>),
    StrVal(<<"U","n","k","n","o","w","n">>),
    StrVal(<<"u","n","U+212A","n","o","w","n">>),
    StrVal(<<"U+00E9","n","e","r","g","i","e"," ","s","t","r","a","U+00DF","e">>),
    NotAString }

SampleSummaries ==
  { StrVal([i \in 1..LongSummaryLen |-> "x"]),
    StrVal(<<"R","a","t","e"," ","c","u","t">>),
    StrVal(<<" ", " ">>),
    NotAString }

ParsedReplies ==
  [qualityScore : SampleScores, insightType : SampleInsightTypes,
   sector : SampleSectors, summary : SampleSummaries]

NoParsed ==
  [qualityScore |-> Absent, insightType |-> NullStr, sector |-> NullStr, summary |-> NullStr]

ReplyTexts ==
  {[kind |-> "nojson", parsed |-> NoParsed], [kind |-> "badjson", parsed |-> NoParsed]}
    \cup [kind : {"json"}, parsed : ParsedReplies]

NoText == [kind |-> "none", parsed |-> NoParsed]

Upstreams ==
  {[kind |-> "error", text |-> NoText], [kind |-> "nontext", text |-> NoText]}
    \cup [kind : {"text"}, text : ReplyTexts]

AdapterIdle ==
  [pc |-> "idle", provider |-> "none", apiKey |-> FALSE,
   upstream |-> [kind |-> "error", text |-> NoText], outcome |-> Throw]

(***************************************************************************)
(* The analyze-post job and POST /api/posts/[id]/analyze.                  *)
(*                                                                         *)
(* post  - the analysis fields stored on the one post of the model         *)
(* inv   - the dispatcher's current invocation of analyze-post             *)
(* job   - history of the write-backs: how many, the provider input of the *)
(*         last one, and whether the one before had the same input         *)
(* route - status of the last response of the analyze route (0: none)      *)
(***************************************************************************)
MaxDeliveries == 2
MaxRouteCalls == 2

\* retries of analyzePostFunction
AnalyzeRetriesFour == 3 + 1

AnalyzeRetries == 3

\* Provider behaviours the job and the route meet
JobUpstreams ==
  {[kind |-> "error", text |-> NoText],
   [kind |-> "text", text |-> [kind |-> "nojson", parsed |-> NoParsed]]}
    \cup [kind : {"text"},
          text : [kind : {"json"},
                  parsed : [qualityScore : {Fin(14), NotANumber},
                            insightType : {StrVal(<<"E","A","R","N","I","N","G","S">>)},
                            sector : {StrVal(<<"t","e","c","h","n","o","l","o","g","y">>)},
                            summary : {StrVal([i \in 1..LongSummaryLen |-> "x"]),
                                       NotAString}]]]

NoInput == [apiKey |-> FALSE, upstream |-> [kind |-> "none", text |-> NoText]]

AnalyzeIdle ==
  /\ post = getNullAnalysis
  /\ inv = [id |-> 0, state |-> "None", attempts |-> 0, lastThrew |-> FALSE]
  /\ job = [writes |-> 0, input |-> NoInput, repeat |-> FALSE]
  /\ route = [calls |-> 0, status |-> 0]

\* db.post.update({ where: { id }, data: { qualityScore, insightType, sector, summary } })
UpdatePostMerge(old, analysis) ==
  [qualityScore |-> IF analysis.qualityScore = Absent THEN old.qualityScore
                    ELSE analysis.qualityScore,
   insightType |-> IF analysis.insightType = NullStr THEN old.insightType
                   ELSE analysis.insightType,
   sector |-> IF analysis.sector = NullStr THEN old.sector ELSE analysis.sector,
   summary |-> IF analysis.summary = NullStr THEN old.summary ELSE analysis.summary]

UpdatePost(old, analysis) ==
  [qualityScore |-> analysis.qualityScore,
   insightType |-> analysis.insightType,
   sector |-> analysis.sector,
   summary |-> analysis.summary]

RecordWrite(apiKey, upstream) ==
  [writes |-> job.writes + 1,
   input |-> [apiKey |-> apiKey, upstream |-> upstream],
   repeat |-> (job.writes >= 1 /\ job.input = [apiKey |-> apiKey, upstream |-> upstream])]

\* The dispatcher: Pending -> Running -> Succeeded | FailedRetryable -> Pending
\*                                     | FailedTerminal
DeliverEvent ==
  /\ inv.state \in {"None", "Succeeded", "FailedTerminal"}
  /\ inv.id < MaxDeliveries
  /\ inv' = [id |-> inv.id + 1, state |-> "Pending", attempts |-> 0, lastThrew |-> FALSE]
  /\ UNCHANGED <<post, job, route>>

StartAttempt ==
  /\ inv.state = "Pending"
  /\ inv' = [inv EXCEPT !.state = "Running", !.attempts = inv.attempts + 1]
  /\ UNCHANGED <<post, job, route>>

\* State of the invocation after an attempt whose body threw
AfterThrow(i) ==
  [i EXCEPT !.lastThrew = TRUE,
            !.state = IF i.attempts <= AnalyzeRetries THEN "FailedRetryable"
                      ELSE "FailedTerminal"]

\* State of the invocation after an attempt whose body returned
AfterReturn(i) == [i EXCEPT !.lastThrew = FALSE, !.state = "Succeeded"]

RetryLater ==
  /\ inv.state = "FailedRetryable"
  /\ inv' = [inv EXCEPT !.state = "Pending"]
  /\ UNCHANGED <<post, job, route>>

\* The body of analyzePostFunction: analyzePost, then db.post.update, then return.
\* dbOk = FALSE: the update throws (database error, post deleted meanwhile).
RunAnalyzePost ==
  /\ inv.state = "Running"
  /\ \E apiKey \in BOOLEAN, upstream \in JobUpstreams, dbOk \in BOOLEAN :
       LET analysis == analyzePost(apiKey, upstream)
       IN  IF analysis.kind = "throw" \/ ~dbOk
           THEN /\ inv' = AfterThrow(inv)
                /\ UNCHANGED <<post, job>>
           ELSE /\ post' = UpdatePost(post, analysis.value)
                /\ job' = RecordWrite(apiKey, upstream)
                /\ inv' = AfterReturn(inv)
  /\ UNCHANGED route

\* POST /api/posts/[id]/analyze (it uses analyzePost of lib/gemini.ts): 404
\* without the post, 500 when anything throws, 200 after the update.
AnalyzeRoute ==
  /\ route.calls < MaxRouteCalls
  /\ \E found \in BOOLEAN, apiKey \in BOOLEAN, upstream \in JobUpstreams, dbOk \in BOOLEAN :
       LET analysis == geminiAnalyzePost(apiKey, upstream)
       IN  IF ~found
           THEN /\ route' = [calls |-> route.calls + 1, status |-> 404]
                /\ UNCHANGED <<post, job>>
           ELSE IF analysis.kind = "throw" \/ ~dbOk
           THEN /\ route' = [calls |-> route.calls + 1, status |-> 500]
                /\ UNCHANGED <<post, job>>
           ELSE /\ post' = UpdatePost(post, analysis.value)
                /\ job' = RecordWrite(apiKey, upstream)
                /\ route' = [calls |-> route.calls + 1, status |-> 200]
  /\ UNCHANGED inv

(***************************************************************************)
(* News sentiment: getCompanyNews, analyzeNewsSentiment, the scheduled     *)
(* refresh job and GET /api/stocks/[symbol]/news-sentiment.                *)
(*                                                                         *)
(* now   - the clock, in minutes                                           *)
(* cache - the NewsSentimentCache table, one row per symbol or none        *)
(* run   - the refresh job: the call it has reached, its place in the     *)
(*         loop, its results list, and trace, one entry per loop iteration *)
(*         done                                                            *)
(* resp  - one request of the news-sentiment route: req holds the call the *)
(*         handler has reached and its locals, last the response with the  *)
(*         locals of the handler that produced it                          *)
(*                                                                         *)
(* Each action is one awaited database call of a handler together with the *)
(* local computation up to it, so the job and the route interleave between *)
(* their calls.                                                            *)
(***************************************************************************)
TickMinutes == 15
MaxTicks == 3

\* 30 * 60 * 1000 ms, in minutes
FreshMinutes == 30
MIN_ARTICLES == 3

\* db.postTicker.findMany({ distinct: ["symbol"] })
ActiveSymbols == <<"AAPL", "GOOG">>
Symbols == {ActiveSymbols[i] : i \in 1..Len(ActiveSymbols)}

TICKER_FALLBACKS ==
  [sym \in {"GOOG", "GOOGL", "BRK.A", "BRK.B"} |->
     CASE sym = "GOOG" -> "GOOGL"
       [] sym = "GOOGL" -> "GOOG"
       [] sym = "BRK.A" -> "BRK.B"
       [] sym = "BRK.B" -> "BRK.A"]

RECURSIVE JoinChars(_)
JoinChars(chars) == IF chars = <<>> THEN "" ELSE chars[1] \o JoinChars(Tail(chars))

\* getCompanyNews.  apiKey: process.env.FINNHUB_API_KEY is set; symbol: the
\* argument, a sequence of characters; fetched[sym]: the number of articles
\* fetchNewsForTicker returns for sym (0 on any fetch error).  The result is
\* the list of fetchNewsForTicker calls made, in order, and the articles
\* returned, represented by the symbol they were fetched for and their number
\* (source "" is the empty list returned without a fetch).
getCompanyNewsNoThreshold(apiKey, symbol, fetched) ==
  IF ~apiKey THEN [calls |-> <<>>, articles |-> [source |-> "", n |-> 0]]
  ELSE LET upperSymbol == JoinChars(ToUpperCase(symbol))
           articles == [source |-> upperSymbol, n |-> fetched[upperSymbol]]
       IN  IF upperSymbol \in DOMAIN TICKER_FALLBACKS
           THEN LET fallbackSymbol == TICKER_FALLBACKS[upperSymbol]
                    fallbackArticles == [source |-> fallbackSymbol, n |-> fetched[fallbackSymbol]]
                IN  [calls |-> <<upperSymbol, fallbackSymbol>>,
                     articles |-> IF fallbackArticles.n > articles.n
                                  THEN fallbackArticles ELSE articles]
           ELSE [calls |-> <<upperSymbol>>, articles |-> articles]

getCompanyNews(apiKey, symbol, fetched) ==
  IF ~apiKey THEN [calls |-> <<>>, articles |-> [source |-> "", n |-> 0]]
  ELSE LET upperSymbol == JoinChars(ToUpperCase(symbol))
           articles == [source |-> upperSymbol, n |-> fetched[upperSymbol]]
       IN  IF articles.n < MIN_ARTICLES /\ upperSymbol \in DOMAIN TICKER_FALLBACKS
           THEN LET fallbackSymbol == TICKER_FALLBACKS[upperSymbol]
                    fallbackArticles == [source |-> fallbackSymbol, n |-> fetched[fallbackSymbol]]
                IN  [calls |-> <<upperSymbol, fallbackSymbol>>,
                     articles |-> IF fallbackArticles.n > articles.n
                                  THEN fallbackArticles ELSE articles]
           ELSE [calls |-> <<upperSymbol>>, articles |-> articles]

\* The characters of the symbols of the PostTicker table
SymbolChars ==
  [sym \in Symbols |->
     CASE sym = "AAPL" -> <<"A","A","P","L">>
       [] sym = "GOOG" -> <<"G","O","O","G">>]

\* Numbers of articles a fetch returns in the model: too few, or enough
ArticleCounts == {MIN_ARTICLES - 1, MIN_ARTICLES}

\* What the fetches of one getCompanyNews call return: for the symbol itself
\* and, when it has one, for its fallback symbol
FetchOutcomes(symbol) ==
  [{symbol} \cup (IF symbol \in DOMAIN TICKER_FALLBACKS
                  THEN {TICKER_FALLBACKS[symbol]} ELSE {}) -> ArticleCounts]

\* nullResult of analyzeNewsSentiment
nullResult == [bullishPercent |-> Fin(0), bearishPercent |-> Fin(0), neutralPercent |-> Fin(0)]

\* analyzeNewsSentiment, percentages only.  n: articles.length.
analyzeNewsSentiment(n, apiKey, upstream) ==
  IF n < MIN_ARTICLES THEN nullResult
  ELSE IF ~apiKey THEN nullResult
  ELSE TryCatch(
         IF upstream.kind \in {"error", "nontext"} THEN Throw
         ELSE IF upstream.text.kind \in {"nojson", "badjson"} THEN Throw
         ELSE Return(NormalizePercentages(upstream.text.parsed)),
         nullResult).value

\* Replies of the model to the news prompt (raw percentages in halves): 23,
\* 17 and 0, which normalisation scales by the total 40
NewsTriples ==
  { [bullishPercent |-> Fin(46), bearishPercent |-> Fin(34), neutralPercent |-> Fin(0)] }

NewsUpstreams ==
  {[kind |-> "error", text |-> [kind |-> "none", parsed |-> NoTriple]],
   [kind |-> "text", text |-> [kind |-> "badjson", parsed |-> NoTriple]]}
    \cup [kind : {"text"}, text : [kind : {"json"}, parsed : NewsTriples]]

\* Provider behaviour during one analyzeNewsSentiment call: the credential is
\* missing (the upstream is then never called), or it is set and the upstream
\* behaves in one of the ways above
NewsProviders ==
  {[apiKey |-> FALSE, upstream |-> [kind |-> "error", text |-> [kind |-> "none", parsed |-> NoTriple]]]}
    \cup [apiKey : {TRUE}, upstream : NewsUpstreams]

\* What getCompanyNews(symbol) can return, over the credential being set or
\* not and all fetch outcomes
CompanyNewsResults(symbol) ==
  {getCompanyNews(apiKey, SymbolChars[symbol], fetched).articles :
     apiKey \in BOOLEAN, fetched \in FetchOutcomes(symbol)}

\* What analyzeNewsSentiment can return for n articles, over all provider
\* behaviours
NewsAnalyses(n) ==
  {analyzeNewsSentiment(n, provider.apiKey, provider.upstream) : provider \in NewsProviders}

\* a - b for JavaScript numbers that are not infinite
JSSub(a, b) == IF a.k = "fin" /\ b.k = "fin" THEN Fin(a.v - b.v) ELSE NaN

NoRow ==
  [present |-> FALSE, bullishPercent |-> Absent, bearishPercent |-> Absent,
   neutralPercent |-> Absent, companyNewsScore |-> Absent, articleCount |-> 0,
   lastUpdated |-> 0]

\* The record of db.newsSentimentCache.upsert (companyNewsScore in hundredths;
\* lastUpdated is set by the database client on every write)
SentimentRow(aiAnalysis, articleCount, at) ==
  [present |-> TRUE,
   bullishPercent |-> aiAnalysis.bullishPercent,
   bearishPercent |-> aiAnalysis.bearishPercent,
   neutralPercent |-> aiAnalysis.neutralPercent,
   companyNewsScore |-> JSSub(aiAnalysis.bullishPercent, aiAnalysis.bearishPercent),
   articleCount |-> articleCount,
   lastUpdated |-> at]

\* The locals of the handler of GET /api/stocks/[symbol]/news-sentiment while
\* a request is in flight.  pc is the statement the handler has reached;
\* found is what findUnique returned, cached the variable of that name;
\* checkedAt is Date.now() of line 41; fetched: getCompanyNews was called;
\* calls: the number of requests getCompanyNews made to the news provider.
NoRequest ==
  [pc |-> "idle", symbol |-> "", forceRefresh |-> FALSE, found |-> NoRow,
   cached |-> NoRow, isCacheFresh |-> FALSE, checkedAt |-> 0, fetched |-> FALSE,
   calls |-> 0, n |-> 0]

\* A response, with the locals of the handler that produced it.  found: what
\* findUnique returned; row: the record the response carries.
NoResp ==
  [status |-> 0, available |-> FALSE, isStale |-> FALSE, staleReason |-> FALSE,
   row |-> NoRow, symbol |-> "", forceRefresh |-> FALSE, lookedUp |-> FALSE,
   found |-> NoRow, isCacheFresh |-> FALSE, checkedAt |-> 0, fetched |-> FALSE,
   calls |-> 0, n |-> 0]

RunIdle ==
  [pc |-> "idle", idx |-> 0, results |-> <<>>, trace |-> <<>>, n |-> 0,
   wrote |-> FALSE]

NewsIdle ==
  /\ now = 0
  /\ cache = [sym \in Symbols |-> NoRow]
  /\ run = RunIdle
  /\ resp = [reads |-> 0, last |-> NoResp, req |-> NoRequest]

Tick ==
  /\ now < MaxTicks * TickMinutes
  /\ now' = now + TickMinutes
  /\ UNCHANGED <<cache, run, resp>>

\* ---- refreshNewsSentimentFunction, one scheduled run ----
StartRefresh ==
  /\ run.pc = "idle"
  /\ run' = [RunIdle EXCEPT !.pc = "loop", !.idx = 1]
  /\ UNCHANGED <<now, cache, resp>>

\* The entry of the trace for the iteration in progress
TraceEntry(r) ==
  [symbol |-> ActiveSymbols[r.idx], n |-> r.n, threw |-> "none",
   wrote |-> r.wrote, delayed |-> FALSE]

\* The next iteration of the for loop
NextSymbol(r, result, entry) ==
  [r EXCEPT !.pc = "loop", !.idx = r.idx + 1, !.n = 0, !.wrote = FALSE,
            !.results = Append(r.results, result),
            !.trace = Append(r.trace, entry)]

\* catch (error) { results.push({ symbol, success: false, error: String(error) }) }
OnSymbolErrorAbort(r, entry) ==
  [r EXCEPT !.pc = "failed", !.trace = Append(r.trace, entry)]

OnSymbolError(r, entry) ==
  NextSymbol(r, [symbol |-> entry.symbol, success |-> FALSE, error |-> "thrown"], entry)

\* An iteration of the for loop up to the end of its first database call:
\* getCompanyNews, the length test, analyzeNewsSentiment and
\* await db.newsSentimentCache.upsert(...), which throws when dbFail.
ProcessSymbol ==
  /\ run.pc = "loop"
  /\ run.idx <= Len(ActiveSymbols)
  /\ \E articles \in CompanyNewsResults(ActiveSymbols[run.idx]), dbFail \in BOOLEAN :
     \E aiAnalysis \in NewsAnalyses(articles.n) :
       LET symbol == ActiveSymbols[run.idx]
           fetchedRun == [run EXCEPT !.n = articles.n]
       IN  IF articles.n < MIN_ARTICLES
           THEN /\ run' = NextSymbol(fetchedRun,
                            [symbol |-> symbol, success |-> FALSE,
                             error |-> "Not enough articles"],
                            TraceEntry(fetchedRun))
                /\ UNCHANGED cache
           ELSE IF dbFail
           THEN /\ run' = OnSymbolError(fetchedRun,
                            [TraceEntry(fetchedRun) EXCEPT !.threw = "cache"])
                /\ UNCHANGED cache
           ELSE /\ cache' = [cache EXCEPT
                               ![symbol] = SentimentRow(aiAnalysis, articles.n, now)]
                /\ run' = [fetchedRun EXCEPT !.pc = "articles", !.wrote = TRUE]
  /\ UNCHANGED <<now, resp>>

\* The newsArticle.upsert calls of the iteration, results.push and the delay
StoreArticles ==
  /\ run.pc = "articles"
  /\ \E dbFail \in BOOLEAN :
       IF dbFail
       THEN run' = OnSymbolError(run, [TraceEntry(run) EXCEPT !.threw = "article"])
       ELSE run' = NextSymbol(run,
                     [symbol |-> ActiveSymbols[run.idx], success |-> TRUE, error |-> ""],
                     [TraceEntry(run) EXCEPT !.delayed = TRUE])
  /\ UNCHANGED <<now, cache, resp>>

FinishRefresh ==
  /\ run.pc = "loop"
  /\ run.idx > Len(ActiveSymbols)
  /\ run' = [run EXCEPT !.pc = "done"]
  /\ UNCHANGED <<now, cache, resp>>

\* ---- GET /api/stocks/[symbol]/news-sentiment ----
\* cached && cached.lastUpdated > thirtyMinutesAgo
IsCacheFreshInclusive(cached, at) == cached.present /\ cached.lastUpdated >= at - FreshMinutes

IsCacheFresh(cached, at) == cached.present /\ cached.lastUpdated > at - FreshMinutes

\* The response when fewer than 3 articles were fetched
InsufficientResponseNoFallback(cached, base) ==
  [base EXCEPT !.status = 200, !.available = FALSE]

InsufficientResponse(cached, base) ==
  IF cached.present
  THEN [base EXCEPT !.status = 200, !.available = TRUE, !.isStale = TRUE,
                    !.staleReason = TRUE, !.row = cached]
  ELSE [base EXCEPT !.status = 200, !.available = FALSE]

\* The locals of the handler, as carried by its response
ResponseBase(req) ==
  [NoResp EXCEPT !.symbol = req.symbol, !.forceRefresh = req.forceRefresh,
                 !.lookedUp = TRUE, !.found = req.found,
                 !.isCacheFresh = req.isCacheFresh, !.checkedAt = req.checkedAt,
                 !.fetched = req.fetched, !.calls = req.calls, !.n = req.n]

\* The handler returns r
Reply(r) == resp' = [reads |-> resp.reads + 1, last |-> r, req |-> NoRequest]

\* catch (error) { return NextResponse.json({ error: ... }, { status: 500 }) }
ReplyError(base) == Reply([base EXCEPT !.status = 500])

\* The request arrives (one request in a behaviour):
\* let cached = await db.newsSentimentCache.findUnique(...), which throws
\* when dbFail
FindCached ==
  /\ resp.req.pc = "idle"
  /\ resp.reads = 0
  /\ \E symbol \in Symbols, forceRefresh \in BOOLEAN, dbFail \in BOOLEAN :
       IF dbFail
       THEN ReplyError([NoResp EXCEPT !.symbol = symbol, !.forceRefresh = forceRefresh])
       ELSE resp' = [resp EXCEPT
                       !.last = NoResp,
                       !.req = [NoRequest EXCEPT
                                  !.pc = "check",
                                  !.symbol = symbol,
                                  !.forceRefresh = forceRefresh,
                                  !.found = cache[symbol],
                                  !.cached = cache[symbol]]]
  /\ UNCHANGED <<now, cache, run>>

\* The handler resumes after findUnique:
\* thirtyMinutesAgo = new Date(Date.now() - 30 * 60 * 1000), isCacheFresh, and
\* if (forceRefresh || !isCacheFresh)
CheckFreshness ==
  /\ resp.req.pc = "check"
  /\ LET isCacheFresh == IsCacheFresh(resp.req.cached, now)
     IN  resp' = [resp EXCEPT
                    !.req = [resp.req EXCEPT
                               !.pc = IF resp.req.forceRefresh \/ ~isCacheFresh
                                      THEN "fetch" ELSE "findMany",
                               !.isCacheFresh = isCacheFresh,
                               !.checkedAt = now]]
  /\ UNCHANGED <<now, cache, run>>

\* The refresh up to the end of its first database call: getCompanyNews
\* (apiKey: FINNHUB_API_KEY is set; fetched: what the provider answers), the
\* length test, analyzeNewsSentiment and
\* cached = await db.newsSentimentCache.upsert(...), which throws when dbFail
FetchAndUpsert ==
  /\ resp.req.pc = "fetch"
  /\ \E apiKey \in BOOLEAN, fetched \in FetchOutcomes(resp.req.symbol), dbFail \in BOOLEAN :
     LET news == getCompanyNews(apiKey, SymbolChars[resp.req.symbol], fetched)
         articles == news.articles
     IN
     \E aiAnalysis \in NewsAnalyses(articles.n) :
       LET called == [resp.req EXCEPT !.fetched = TRUE, !.calls = Len(news.calls),
                                      !.n = articles.n]
           newRow == SentimentRow(aiAnalysis, articles.n, now)
       IN  IF articles.n < MIN_ARTICLES
           THEN /\ IF resp.req.cached.present
                   THEN resp' = [resp EXCEPT !.req = [called EXCEPT !.pc = "staleFindMany"]]
                   ELSE Reply(InsufficientResponse(resp.req.cached, ResponseBase(called)))
                /\ UNCHANGED cache
           ELSE IF dbFail
           THEN /\ ReplyError(ResponseBase(called))
                /\ UNCHANGED cache
           ELSE /\ cache' = [cache EXCEPT ![resp.req.symbol] = newRow]
                /\ resp' = [resp EXCEPT
                              !.req = [called EXCEPT !.pc = "articles", !.cached = newRow]]
  /\ UNCHANGED <<now, run>>

\* await db.newsArticle.findMany(...) of the stale fallback, and its response
FindManyStale ==
  /\ resp.req.pc = "staleFindMany"
  /\ \E dbFail \in BOOLEAN :
       IF dbFail
       THEN ReplyError(ResponseBase(resp.req))
       ELSE Reply(InsufficientResponse(resp.req.cached, ResponseBase(resp.req)))
  /\ UNCHANGED <<now, cache, run>>

\* The newsArticle.upsert calls of the handler
UpsertArticles ==
  /\ resp.req.pc = "articles"
  /\ \E dbFail \in BOOLEAN :
       IF dbFail
       THEN ReplyError(ResponseBase(resp.req))
       ELSE resp' = [resp EXCEPT !.req.pc = "findMany"]
  /\ UNCHANGED <<now, cache, run>>

\* await db.newsArticle.findMany(...) and the response
FindManyAndRespond ==
  /\ resp.req.pc = "findMany"
  /\ \E dbFail \in BOOLEAN :
       LET base == ResponseBase(resp.req)
       IN  IF dbFail
           THEN ReplyError(base)
           ELSE IF ~resp.req.cached.present
           THEN Reply([base EXCEPT !.status = 200, !.available = FALSE])
           ELSE Reply([base EXCEPT !.status = 200, !.available = TRUE,
                                   !.row = resp.req.cached])
  /\ UNCHANGED <<now, cache, run>>

(***************************************************************************)
(* Idle values of the variables of the remaining components:               *)
(* fh    - one call of getCompanyNews                                      *)
(* comm  - one request of GET /api/stocks/[symbol]/sentiment, one action   *)
(*         per database call                                               *)
(* trend - the trending job and the trending route over one table of posts *)
(* pend  - one analyzePost call whose upstream call is in flight           *)
(* valid - one call of a field validator                                   *)
(* store - the NewsArticle table and the TrendingCache row                 *)
(* newsrow - one upsert of a NewsSentimentCache row                        *)
(* wset  - the rows written by one run of a background job                 *)
(* race  - two concurrent recomputations of one ticker's news sentiment    *)
(* parse - one call of parseAnalysisResponse and its one-field variants    *)
(* create - one request of POST /api/posts                                 *)
(* page  - one traversal of GET /api/posts/[id]/comments                   *)
(***************************************************************************)
FhIdle == [pc |-> "idle"]
CommIdle == [pc |-> "idle"]
TrendIdle == [pc |-> "idle"]
PendIdle == [pc |-> "idle"]
ValidIdle == [pc |-> "idle"]
StoreIdle == [pc |-> "idle"]

NewsRowIdle == [pc |-> "idle"]

WsetIdle == [pc |-> "idle"]

RaceIdle == [pc |-> "idle"]

ParseIdle == [pc |-> "idle"]

CreateIdle == [pc |-> "idle"]

PageIdle == [pc |-> "idle"]

\* Every one of these variables but the named one is idle
LibIdleExcept(name) ==
  /\ IF name = "fh" THEN TRUE ELSE fh = FhIdle
  /\ IF name = "comm" THEN TRUE ELSE comm = CommIdle
  /\ IF name = "trend" THEN TRUE ELSE trend = TrendIdle
  /\ IF name = "pend" THEN TRUE ELSE pend = PendIdle
  /\ IF name = "valid" THEN TRUE ELSE valid = ValidIdle
  /\ IF name = "store" THEN TRUE ELSE store = StoreIdle
  /\ IF name = "newsrow" THEN TRUE ELSE newsrow = NewsRowIdle
  /\ IF name = "wset" THEN TRUE ELSE wset = WsetIdle
  /\ IF name = "race" THEN TRUE ELSE race = RaceIdle
  /\ IF name = "parse" THEN TRUE ELSE parse = ParseIdle
  /\ IF name = "create" THEN TRUE ELSE create = CreateIdle
  /\ IF name = "page" THEN TRUE ELSE page = PageIdle

\* Every one of these variables but the named one is left unchanged
LibUnchangedExcept(name) ==
  /\ IF name = "fh" THEN TRUE ELSE UNCHANGED fh
  /\ IF name = "comm" THEN TRUE ELSE UNCHANGED comm
  /\ IF name = "trend" THEN TRUE ELSE UNCHANGED trend
  /\ IF name = "pend" THEN TRUE ELSE UNCHANGED pend
  /\ IF name = "valid" THEN TRUE ELSE UNCHANGED valid
  /\ IF name = "store" THEN TRUE ELSE UNCHANGED store
  /\ IF name = "newsrow" THEN TRUE ELSE UNCHANGED newsrow
  /\ IF name = "wset" THEN TRUE ELSE UNCHANGED wset
  /\ IF name = "race" THEN TRUE ELSE UNCHANGED race
  /\ IF name = "parse" THEN TRUE ELSE UNCHANGED parse
  /\ IF name = "create" THEN TRUE ELSE UNCHANGED create
  /\ IF name = "page" THEN TRUE ELSE UNCHANGED page

LibIdle == LibIdleExcept("")

(***************************************************************************)
(* Specification of the percentage normalization: any parsed triple, then  *)
(* the normalization of analyzeNewsSentiment.                              *)
(***************************************************************************)
NormInit ==
  /\ norm \in [pc : {"parsed"}, parsed : ParsedTriples, result : {NoTriple}]
  /\ score = ScoreIdle
  /\ adapter = AdapterIdle
  /\ AnalyzeIdle
  /\ NewsIdle
  /\ LibIdle

Normalize ==
  /\ norm.pc = "parsed"
  /\ norm' = [norm EXCEPT !.pc = "done", !.result = NormalizePercentages(norm.parsed)]
  /\ UNCHANGED <<score, adapter, analyzeVars, newsVars, libVars>>

NormNext == Normalize

SpecNormalize == NormInit /\ [][NormNext]_vars

(***************************************************************************)
(* Specification of validateQualityScore: any raw score, then the          *)
(* validator.                                                              *)
(***************************************************************************)
ScoreInit ==
  /\ score \in [pc : {"raw"}, input : RawScores, result : {Absent}]
  /\ norm = NormIdle
  /\ adapter = AdapterIdle
  /\ AnalyzeIdle
  /\ NewsIdle
  /\ LibIdle

ValidateScore ==
  /\ score.pc = "raw"
  /\ score' = [score EXCEPT !.pc = "done", !.result = validateQualityScore(score.input)]
  /\ UNCHANGED <<norm, adapter, analyzeVars, newsVars, libVars>>

ScoreNext == ValidateScore

SpecScore == ScoreInit /\ [][ScoreNext]_vars

(***************************************************************************)
(* Specification of the post-quality adapter: any provider, credential     *)
(* state and upstream behaviour, then one call of analyzePost.             *)
(***************************************************************************)
AdapterInit ==
  /\ adapter \in [pc : {"call"}, provider : {"anthropic", "gemini"}, apiKey : BOOLEAN,
                  upstream : Upstreams, outcome : {Throw}]
  /\ norm = NormIdle
  /\ score = ScoreIdle
  /\ AnalyzeIdle
  /\ NewsIdle
  /\ LibIdle

AnalyzeCall ==
  /\ adapter.pc = "call"
  /\ adapter' = [adapter EXCEPT
                   !.pc = "done",
                   !.outcome = IF adapter.provider = "anthropic"
                               THEN analyzePost(adapter.apiKey, adapter.upstream)
                               ELSE geminiAnalyzePost(adapter.apiKey, adapter.upstream)]
  /\ UNCHANGED <<norm, score, analyzeVars, newsVars, libVars>>

AdapterNext == AnalyzeCall

SpecAdapter == AdapterInit /\ [][AdapterNext]_vars

(***************************************************************************)
(* Specification of the analyze-post job: deliveries of post/created, the  *)
(* attempts the dispatcher makes, and calls of the analyze route.          *)
(***************************************************************************)
AnalyzeInit ==
  /\ AnalyzeIdle
  /\ NewsIdle
  /\ LibIdle
  /\ norm = NormIdle
  /\ score = ScoreIdle
  /\ adapter = AdapterIdle

AnalyzeNext ==
  \/ (DeliverEvent /\ UNCHANGED <<norm, score, adapter, newsVars, libVars>>)
  \/ (StartAttempt /\ UNCHANGED <<norm, score, adapter, newsVars, libVars>>)
  \/ (RunAnalyzePost /\ UNCHANGED <<norm, score, adapter, newsVars, libVars>>)
  \/ (RetryLater /\ UNCHANGED <<norm, score, adapter, newsVars, libVars>>)
  \/ (AnalyzeRoute /\ UNCHANGED <<norm, score, adapter, newsVars, libVars>>)

SpecAnalyze == AnalyzeInit /\ [][AnalyzeNext]_vars

(***************************************************************************)
(* Specification of the news-sentiment cache: the clock, the scheduled     *)
(* refresh job and on-demand reads, in any interleaving.                   *)
(***************************************************************************)
\* The NewsSentimentCache table when the behaviour starts: empty, or holding
\* for every ticker the row an earlier refresh wrote at time 0
InitialCaches ==
  { [sym \in Symbols |-> NoRow],
    [sym \in Symbols |->
       SentimentRow(analyzeNewsSentiment(MIN_ARTICLES, TRUE,
                      [kind |-> "text",
                       text |-> [kind |-> "json",
                                 parsed |-> CHOOSE t \in NewsTriples : TRUE]]),
                    MIN_ARTICLES, 0)] }

NewsInit ==
  /\ now = 0
  /\ cache \in InitialCaches
  /\ run = RunIdle
  /\ resp = [reads |-> 0, last |-> NoResp, req |-> NoRequest]
  /\ LibIdle
  /\ norm = NormIdle
  /\ score = ScoreIdle
  /\ adapter = AdapterIdle
  /\ AnalyzeIdle

NewsNext ==
  \/ (Tick /\ UNCHANGED <<norm, score, adapter, analyzeVars, libVars>>)
  \/ (StartRefresh /\ UNCHANGED <<norm, score, adapter, analyzeVars, libVars>>)
  \/ (ProcessSymbol /\ UNCHANGED <<norm, score, adapter, analyzeVars, libVars>>)
  \/ (StoreArticles /\ UNCHANGED <<norm, score, adapter, analyzeVars, libVars>>)
  \/ (FinishRefresh /\ UNCHANGED <<norm, score, adapter, analyzeVars, libVars>>)
  \/ (FindCached /\ UNCHANGED <<norm, score, adapter, analyzeVars, libVars>>)
  \/ (CheckFreshness /\ UNCHANGED <<norm, score, adapter, analyzeVars, libVars>>)
  \/ (FetchAndUpsert /\ UNCHANGED <<norm, score, adapter, analyzeVars, libVars>>)
  \/ (FindManyStale /\ UNCHANGED <<norm, score, adapter, analyzeVars, libVars>>)
  \/ (UpsertArticles /\ UNCHANGED <<norm, score, adapter, analyzeVars, libVars>>)
  \/ (FindManyAndRespond /\ UNCHANGED <<norm, score, adapter, analyzeVars, libVars>>)

SpecNews == NewsInit /\ [][NewsNext]_vars

(***************************************************************************)
(* C1: for every parsed triple, the normalization returns three integers,  *)
(* each in [0,100], that sum to exactly 100.                               *)
(***************************************************************************)
IsPercent(x) == x.k = "fin" /\ x.v >= 0 /\ x.v <= 100

C1_NormalizedInRangeSum100 ==
  norm.pc = "done" =>
    /\ IsPercent(norm.result.bullishPercent)
    /\ IsPercent(norm.result.bearishPercent)
    /\ IsPercent(norm.result.neutralPercent)
    /\ norm.result.bullishPercent.v + norm.result.bearishPercent.v
         + norm.result.neutralPercent.v = 100

(***************************************************************************)
(* C7: validateQualityScore returns absent for every input that is not a   *)
(* finite number and min(1, max(0, x)) for every finite x.                 *)
(***************************************************************************)
C7_ScoreAbsentUnlessFiniteElseClamped ==
  score.pc = "done" =>
    IF score.input.k = "fin"
    THEN score.result = Fin(IF score.input.v < 0 THEN 0
                            ELSE IF score.input.v > 10 THEN 10 ELSE score.input.v)
    ELSE score.result = Absent

(***************************************************************************)
(* C8: analyzePost never throws; with a missing credential, an exception   *)
(* from the upstream call, a reply without a JSON object or a reply whose  *)
(* JSON does not parse it returns the all-absent analysis.                 *)
(***************************************************************************)
AdapterFailureCase ==
  \/ ~adapter.apiKey
  \/ adapter.upstream.kind = "error"
  \/ adapter.upstream.kind = "text" /\ adapter.upstream.text.kind \in {"nojson", "badjson"}

C8_AnalyzePostNeverThrows ==
  adapter.pc = "done" =>
    /\ adapter.outcome.kind = "return"
    /\ AdapterFailureCase => adapter.outcome.value = getNullAnalysis

C8_Witness ==
  /\ adapter.pc = "done"
  /\ adapter.provider = "anthropic"
  /\ adapter.apiKey
  /\ adapter.upstream.kind = "error"
  /\ adapter.outcome = Return(getNullAnalysis)

(***************************************************************************)
(* C5: for one post/created event the job body runs at most 4 times; a     *)
(* further attempt starts only after the previous one threw; an attempt    *)
(* that returns ends the invocation as Succeeded; after the fourth throw   *)
(* the invocation is Failed-Terminal and never runs again.                 *)
(***************************************************************************)
C5_AttemptsState ==
  /\ inv.attempts <= 4
  /\ inv.attempts >= 2 => (inv.lastThrew \/ inv.state \in {"Running", "Succeeded"})
  /\ inv.state = "Succeeded" => ~inv.lastThrew
  /\ inv.state = "FailedTerminal" => (inv.attempts = 4 /\ inv.lastThrew)
  /\ (inv.attempts = 4 /\ inv.lastThrew /\ inv.state # "Running") => inv.state = "FailedTerminal"

C5_AttemptsStep ==
  inv'.id = inv.id =>
    /\ inv'.attempts > inv.attempts =>
         (inv.state = "Pending" /\ (inv.attempts = 0 \/ inv.lastThrew))
    /\ (inv.state = "Running" /\ inv' # inv) =>
         IF inv'.lastThrew THEN inv'.state \in {"FailedRetryable", "FailedTerminal"}
         ELSE inv'.state = "Succeeded"
    /\ inv.state \in {"Succeeded", "FailedTerminal"} => inv' = inv

C5_AtMostFourAttempts == [](C5_AttemptsState) /\ [][C5_AttemptsStep]_vars

C5_Witness == inv.state = "FailedTerminal" /\ inv.attempts = 4

(***************************************************************************)
(* C6: every run writes all four analysis fields from its own provider     *)
(* response, so a run with the same response as the run before leaves the  *)
(* stored fields equal to what the earlier run stored.                     *)
(***************************************************************************)
C6_FullOverwrite ==
  job.writes >= 1 => post = analyzePost(job.input.apiKey, job.input.upstream).value

C6_RerunStep ==
  (job'.writes = job.writes + 1 /\ job.writes >= 1 /\ job'.input = job.input) => post' = post

C6_RerunStoresSameFields == [](C6_FullOverwrite) /\ [][C6_RerunStep]_vars

C6_Witness ==
  /\ job.writes >= 2
  /\ job.repeat
  /\ post.qualityScore = Fin(10)
  /\ post.summary # NullStr

(***************************************************************************)
(* C2: every stored NewsSentimentCache row has bullishPercent +            *)
(* bearishPercent + neutralPercent = 100, whatever the provider did.       *)
(***************************************************************************)
C2_StoredRowsSumTo100 ==
  \A sym \in Symbols :
    cache[sym].present =>
      JSAdd(JSAdd(cache[sym].bullishPercent, cache[sym].bearishPercent),
            cache[sym].neutralPercent) = Fin(100)

(***************************************************************************)
(* C3: a read that is answered after fetching fewer than 3 articles        *)
(* carries the values of the row it found, isStale = true and a reason     *)
(* when that row is older than 30 minutes, and available = false when it   *)
(* found no row; it writes nothing.  (A read one of whose database calls   *)
(* throws is answered by the 500 of the catch.)                            *)
(***************************************************************************)
C3_Step ==
  (resp'.reads = resp.reads + 1 /\ resp'.last.status # 500) =>
    LET r == resp'.last
    IN  /\ (r.fetched /\ r.n < 3 /\ r.found.present
              /\ r.checkedAt - r.found.lastUpdated > 30) =>
             /\ r.status = 200 /\ r.available /\ r.isStale /\ r.staleReason
             /\ r.row = r.found
             /\ cache' = cache
        /\ (r.fetched /\ r.n < 3 /\ ~r.found.present) =>
             /\ r.status = 200 /\ ~r.available
             /\ cache' = cache

C3_StaleFallback == [][C3_Step]_vars

C3_Witness ==
  /\ resp.reads >= 1
  /\ resp.last.status = 200
  /\ resp.last.isStale
  /\ ~resp.last.forceRefresh
  /\ resp.last.n < 3
  /\ resp.last.row.present
  /\ resp.last.row = resp.last.found
  /\ resp.last.checkedAt - resp.last.row.lastUpdated > 30

(***************************************************************************)
(* C4: when processing one ticker of a refresh run throws, the failure is  *)
(* recorded against that ticker only, every other ticker is still          *)
(* processed (its row upserted when it has at least 3 articles) and the    *)
(* run completes.                                                          *)
(***************************************************************************)
C4_State ==
  /\ run.pc # "failed"
  /\ Len(run.results) = Len(run.trace)
  /\ \A i \in 1..Len(run.trace) :
       LET t == run.trace[i]
           res == run.results[i]
       IN  /\ t.symbol = ActiveSymbols[i]
           /\ res.symbol = ActiveSymbols[i]
           /\ (res.error = "thrown") <=> (t.threw # "none")
           /\ (t.threw = "none" /\ t.n >= 3) => (t.wrote /\ res.success)
           /\ (t.threw # "none" \/ t.n < 3) => ~res.success
  /\ run.pc = "done" => Len(run.results) = Len(ActiveSymbols)

C4_Step ==
  run' # run =>
    IF run.pc = "loop" /\ run'.pc = "articles"
    THEN LET symbol == ActiveSymbols[run.idx]
         IN  /\ run'.wrote
             /\ cache'[symbol].present
             /\ cache'[symbol].lastUpdated = now
             /\ cache'[symbol].articleCount = run'.n
             /\ \A other \in Symbols \ {symbol} : cache'[other] = cache[other]
    ELSE /\ cache' = cache
         /\ run'.pc = "articles" => run'.wrote = run.wrote

C4_FailureIsolatedPerTicker == [](C4_State) /\ [][C4_Step]_vars

C4_Witness ==
  /\ run.pc = "done"
  /\ \E k \in 1..Len(run.trace) :
       /\ run.trace[k].threw # "none"
       /\ run.results[k].error = "thrown"
       /\ \E j \in (k + 1)..Len(run.trace) :
            /\ run.trace[j].wrote
            /\ run.results[j].success
            /\ cache[run.trace[j].symbol].present

(***************************************************************************)
(* A read of the news-sentiment route, by what its handler saw: the row    *)
(* findUnique returned, and the clock when the handler tested it.          *)
(***************************************************************************)
\* forceRefresh is set, or the handler found no row, or the row it found was
\* 30 minutes old or more when the handler tested it
MustRefresh(r) ==
  \/ r.forceRefresh
  \/ ~r.found.present
  \/ r.checkedAt - r.found.lastUpdated >= 30

\* A read that makes no call writes nothing and answers with the row it read
AnswersFromRowRead(r) ==
  (~r.fetched /\ r.status # 500) =>
    /\ r.status = 200 /\ r.available /\ ~r.isStale
    /\ r.calls = 0
    /\ r.row = r.found
    /\ r.row.present

\* No step of a handler that has not decided to refresh writes the cache row
WritesOnlyWhenRefreshing ==
  (resp' # resp /\ resp.req.pc # "fetch") => cache' = cache

(***************************************************************************)
(* C9 as stated: a read calls the headline provider iff forceRefresh is    *)
(* set, or the ticker has no cache row, or the row's lastUpdated is not    *)
(* within the last 30 minutes; otherwise it calls nothing, leaves the      *)
(* cache unchanged and returns the cached values.                          *)
(***************************************************************************)
C9_StepAsStated ==
  /\ WritesOnlyWhenRefreshing
  /\ (resp'.reads = resp.reads + 1 /\ resp'.last.lookedUp) =>
       /\ resp'.last.calls > 0 <=> MustRefresh(resp'.last)
       /\ AnswersFromRowRead(resp'.last)

C9_AsStated == [][C9_StepAsStated]_vars

(***************************************************************************)
(* C9, amended: a read calls getCompanyNews iff forceRefresh is set, or    *)
(* its findUnique returned no row, or the row it returned is 30 minutes    *)
(* old or more when the handler tests it; getCompanyNews requests the      *)
(* news provider only when FINNHUB_API_KEY is set, so a refreshing read    *)
(* makes one or two requests or none.  In the remaining case (the row read *)
(* is fresh, no forceRefresh) the read makes no provider request, writes   *)
(* nothing to the cache and returns the values of the row it read.         *)
(***************************************************************************)
C9_Step ==
  /\ WritesOnlyWhenRefreshing
  /\ (resp.req.pc = "check" /\ resp' # resp) =>
       /\ resp'.req.checkedAt = now
       /\ resp'.req.found = resp.req.found
       /\ resp'.req.pc = (IF MustRefresh(resp'.req) THEN "fetch" ELSE "findMany")
  /\ (resp' # resp /\ resp'.req.pc # "idle") =>
       /\ resp'.req.fetched = (resp.req.fetched \/ resp.req.pc = "fetch")
       /\ resp.req.pc # "fetch" => resp'.req.calls = resp.req.calls
  /\ (resp'.reads = resp.reads + 1 /\ resp'.last.lookedUp) =>
       LET r == resp'.last
       IN  /\ r.fetched = (resp.req.fetched \/ resp.req.pc = "fetch")
           /\ r.fetched <=> MustRefresh(r)
           /\ r.calls > 0 => r.fetched
           /\ r.calls <= 2
           /\ AnswersFromRowRead(r)

C9_FetchIffForcedOrNotFresh == [][C9_Step]_vars

C9_Witness ==
  /\ resp.reads >= 1
  /\ resp.last.lookedUp
  /\ ~resp.last.fetched
  /\ resp.last.calls = 0
  /\ ~resp.last.forceRefresh
  /\ resp.last.status = 200
  /\ resp.last.row.present
  /\ resp.last.row = resp.last.found
  /\ resp.last.checkedAt - resp.last.row.lastUpdated > 0
  /\ cache[resp.last.symbol] # resp.last.found

(***************************************************************************)
(* C10: within one refresh run a pacing delay elapses between the          *)
(* headline-provider calls of every two consecutive tickers.               *)
(***************************************************************************)
C10_DelayBetweenConsecutiveTickers ==
  \A i \in 1..(Len(run.trace) - 1) : run.trace[i].delayed

(***************************************************************************)
(* getCompanyNews with its fetches.  The symbol argument is a sequence of  *)
(* characters; fetched(sym) is the number of articles fetchNewsForTicker   *)
(* returns for sym.  The result is the list of fetchNewsForTicker calls    *)
(* made, in order, and the articles returned (their source symbol and      *)
(* number; source "" is the empty list returned without a fetch).          *)
(***************************************************************************)
MaxFetched == 4

\* Symbols passed to getCompanyNews, as typed by a caller
RequestedSymbols ==
  { <<"G","O","O","G">>, <<"g","o","o","g","l">>, <<"B","r","k",".","a">>,
    <<"B","R","K",".","B">>, <<"A","A","P","L">>, <<"t","s","l","a">> }

FetchedSymbols == {"GOOG", "GOOGL", "BRK.A", "BRK.B", "AAPL", "TSLA"}

\* The articles the provider has for the symbol asked for and for its alias
\* (a symbol that is not fetched has none to count)
FetchedCounts(symbol) ==
  LET upperSymbol == JoinChars(ToUpperCase(symbol))
      relevant == {upperSymbol} \cup (IF upperSymbol \in DOMAIN TICKER_FALLBACKS
                                      THEN {TICKER_FALLBACKS[upperSymbol]} ELSE {})
  IN  {f \in [FetchedSymbols -> 0..MaxFetched] : \A sym \in FetchedSymbols \ relevant : f[sym] = 0}

FhInit ==
  /\ \E symbol \in RequestedSymbols :
       fh \in [pc : {"call"}, apiKey : BOOLEAN, symbol : {symbol},
               fetched : FetchedCounts(symbol),
               calls : {<<>>}, articles : {[source |-> "", n |-> 0]}]
  /\ norm = NormIdle
  /\ score = ScoreIdle
  /\ adapter = AdapterIdle
  /\ AnalyzeIdle
  /\ NewsIdle
  /\ LibIdleExcept("fh")

GetCompanyNews ==
  /\ fh.pc = "call"
  /\ LET r == getCompanyNews(fh.apiKey, fh.symbol, fh.fetched)
     IN  fh' = [fh EXCEPT !.pc = "done", !.calls = r.calls, !.articles = r.articles]
  /\ UNCHANGED coreVars
  /\ LibUnchangedExcept("fh")

FhNext == GetCompanyNews

SpecFinnhub == FhInit /\ [][FhNext]_vars

FhPrimary == JoinChars(ToUpperCase(fh.symbol))

FhHasAlias == FhPrimary \in DOMAIN TICKER_FALLBACKS

FhAlias == TICKER_FALLBACKS[FhPrimary]

FhFallbackRule ==
  /\ Len(fh.calls) >= 1
  /\ fh.calls[1] = FhPrimary
  /\ Len(fh.calls) <= 2
  /\ Len(fh.calls) = 2 <=> (fh.fetched[FhPrimary] < 3 /\ FhHasAlias)
  /\ Len(fh.calls) = 2 => fh.calls[2] = FhAlias
  /\ IF Len(fh.calls) = 2 /\ fh.fetched[FhAlias] > fh.fetched[FhPrimary]
     THEN fh.articles = [source |-> FhAlias, n |-> fh.fetched[FhAlias]]
     ELSE fh.articles = [source |-> FhPrimary, n |-> fh.fetched[FhPrimary]]

(***************************************************************************)
(* C11 as stated: every call of getCompanyNews fetches the primary symbol  *)
(* first, fetches the alias only when the primary returned fewer than 3    *)
(* articles and the symbol has an alias, and returns the alias's articles  *)
(* iff the alias was fetched and returned strictly more than the primary.  *)
(***************************************************************************)
C11_AsStated == fh.pc = "done" => FhFallbackRule

(***************************************************************************)
(* C11, amended: the rule above holds for every call made while the        *)
(* provider credential is configured; without it no fetch is made and no   *)
(* article is returned.                                                    *)
(***************************************************************************)
C11_FallbackRuleWhenConfigured ==
  fh.pc = "done" =>
    IF fh.apiKey THEN FhFallbackRule
    ELSE fh.calls = <<>> /\ fh.articles.n = 0

C11_Witness ==
  /\ fh.pc = "done"
  /\ fh.apiKey
  /\ Len(fh.calls) = 2
  /\ fh.fetched[FhPrimary] = 2
  /\ fh.articles.source = FhAlias
  /\ fh.articles.n > 2

(***************************************************************************)
(* Community sentiment: analyzeCommunitySentiment and its validators       *)
(* (lib/anthropic.ts).                                                     *)
(***************************************************************************)
VALID_SENTIMENT_STRENGTHS ==
  { <<"s","t","r","o","n","g">>, <<"m","o","d","e","r","a","t","e">>,
    <<"w","e","a","k">>, <<"m","i","x","e","d">> }

VALID_CONFIDENCE_LEVELS ==
  { <<"h","i","g","h">>, <<"m","e","d","i","u","m">>, <<"l","o","w">> }

validateSentimentStrength(strength) ==
  IF strength.t # "string" THEN NullStr
  ELSE LET normalized == Trim(ToLowerCase(strength.s))
       IN  IF normalized \in VALID_SENTIMENT_STRENGTHS THEN StrVal(normalized) ELSE NullStr

validateConfidenceDefaulting(confidence) ==
  IF confidence.t # "string" THEN NullStr
  ELSE LET normalized == Trim(ToLowerCase(confidence.s))
       IN  IF normalized \in VALID_CONFIDENCE_LEVELS THEN StrVal(normalized)
           ELSE StrVal(<<"l","o","w">>)

validateConfidence(confidence) ==
  IF confidence.t # "string" THEN NullStr
  ELSE LET normalized == Trim(ToLowerCase(confidence.s))
       IN  IF normalized \in VALID_CONFIDENCE_LEVELS THEN StrVal(normalized) ELSE NullStr

CommunitySummaryMaxLen == 300
CommunitySummaryKeepLen == 297

validateCommunitySummary(summary) ==
  IF summary.t # "string" THEN NullStr
  ELSE LET trimmed == Trim(summary.s)
       IN  IF Len(trimmed) = 0 THEN NullStr
           ELSE IF Len(trimmed) > CommunitySummaryMaxLen
                THEN StrVal(Substring0(trimmed, CommunitySummaryKeepLen) \o Ellipsis)
                ELSE StrVal(trimmed)

\* themes.filter(...).slice(0, 3).map(t => t.trim()); themes: [isArray, items]
validateKeyThemes(themes) ==
  IF ~themes.isArray THEN <<>>
  ELSE LET kept == SelectSeq(themes.items,
                             LAMBDA t : t.t = "string" /\ Len(Trim(t.s)) > 0)
           first == SubSeq(kept, 1, IF Len(kept) < 3 THEN Len(kept) ELSE 3)
       IN  [i \in 1..Len(first) |-> StrVal(Trim(first[i].s))]

getNullCommunityAnalysis ==
  [summary |-> NullStr, keyThemes |-> <<>>, sentimentStrength |-> NullStr,
   confidence |-> NullStr]

parseCommunityAnalysisResponse(text) ==
  TryCatch(
    IF text.kind = "nojson" THEN Return(getNullCommunityAnalysis)
    ELSE IF text.kind = "badjson" THEN Throw
    ELSE Return([summary |-> validateCommunitySummary(text.parsed.summary),
                 keyThemes |-> validateKeyThemes(text.parsed.keyThemes),
                 sentimentStrength |-> validateSentimentStrength(text.parsed.sentimentStrength),
                 confidence |-> validateConfidence(text.parsed.confidence)]),
    getNullCommunityAnalysis).value

\* analyzeCommunitySentiment.  nPosts: posts.length.  The result carries the
\* number of anthropic.messages.create calls made and the analysis returned.
analyzeCommunitySentimentNoGate(apiKey, nPosts, upstream) ==
  IF ~apiKey THEN [calls |-> 0, analysis |-> getNullCommunityAnalysis]
  ELSE [calls |-> 1,
        analysis |->
          TryCatch(
            IF upstream.kind = "error" THEN Throw
            ELSE IF upstream.kind = "nontext"
                 THEN Return(parseCommunityAnalysisResponse([kind |-> "nojson"]))
                 ELSE Return(parseCommunityAnalysisResponse(upstream.text)),
            getNullCommunityAnalysis).value]

analyzeCommunitySentiment(apiKey, nPosts, upstream) ==
  IF ~apiKey THEN [calls |-> 0, analysis |-> getNullCommunityAnalysis]
  ELSE IF nPosts < 3 THEN [calls |-> 0, analysis |-> getNullCommunityAnalysis]
  ELSE [calls |-> 1,
        analysis |->
          TryCatch(
            IF upstream.kind = "error" THEN Throw
            ELSE IF upstream.kind = "nontext"
                 THEN Return(parseCommunityAnalysisResponse([kind |-> "nojson"]))
                 ELSE Return(parseCommunityAnalysisResponse(upstream.text)),
            getNullCommunityAnalysis).value]

\* Replies of the model to the community prompt
NoThemes == [isArray |-> FALSE, items |-> <<>>]

SampleThemes ==
  { [isArray |-> TRUE,
     items |-> << StrVal(<<" ","A","I"," ">>), NotAString, StrVal(<<" ">>),
                  StrVal(<<"E","V">>), StrVal(<<"r","a","t","e","s">>),
                  StrVal(<<"o","i","l">>) >>],
    NoThemes }

SampleStrengths ==
  { StrVal(<<" ","S","t","r","o","n","g"," ">>), StrVal(<<"h","u","g","e">>) }

SampleConfidences ==
  { StrVal(<<"H","I","G","H">>), NotAString }

SampleCommunitySummaries ==
  { StrVal(<<" ","B","u","l","l","s"," ","l","e","a","d","."," ">>) }

NoCommunityParsed ==
  [summary |-> NullStr, keyThemes |-> NoThemes, sentimentStrength |-> NullStr,
   confidence |-> NullStr]

CommunityParsedReplies ==
  [summary : SampleCommunitySummaries, keyThemes : SampleThemes,
   sentimentStrength : SampleStrengths, confidence : SampleConfidences]

NoCommunityText == [kind |-> "none", parsed |-> NoCommunityParsed]

CommunityUpstreams ==
  {[kind |-> "error", text |-> NoCommunityText],
   [kind |-> "nontext", text |-> NoCommunityText],
   [kind |-> "text", text |-> [kind |-> "nojson", parsed |-> NoCommunityParsed]],
   [kind |-> "text", text |-> [kind |-> "badjson", parsed |-> NoCommunityParsed]]}
    \cup [kind : {"text"}, text : [kind : {"json"}, parsed : CommunityParsedReplies]]

(***************************************************************************)
(* GET /api/stocks/[symbol]/sentiment.  counts(label) is the number of     *)
(* posts of the ticker with that sentiment inside the period; the groupBy  *)
(* returns one row per label that has posts.                               *)
(***************************************************************************)
MaxLabelCount == 23
MaxNeutralCount == 2
MaxQualityPosts == 3
MaxPosts == 4
MaxLatePosts == 2

\* take: 10
QualityTake == 10

SentimentLabels ==
  << <<"B","U","L","L","I","S","H">>, <<"B","E","A","R","I","S","H">>,
     <<"N","E","U","T","R","A","L">> >>

VALID_PERIODS == {"24h", "7d", "30d"}

\* db.post.groupBy({ by: ["sentiment"], _count, where })
GroupBySentiment(counts) ==
  SelectSeq([i \in 1..3 |-> [sentiment |-> SentimentLabels[i], count |-> counts[i]]],
            LAMBDA row : row.count > 0)

RECURSIVE SumCounts(_)
SumCounts(rows) == IF rows = <<>> THEN 0 ELSE rows[1].count + SumCounts(Tail(rows))

\* total > 0 ? Math.round((count / total) * 100) : 0
Percentage(count, total) ==
  IF total > 0 THEN RoundedPercentOf(count, total) ELSE 0

EmptyBreakdown ==
  [bullish |-> [count |-> 0, percentage |-> 0],
   bearish |-> [count |-> 0, percentage |-> 0],
   neutral |-> [count |-> 0, percentage |-> 0]]

\* sentimentCounts.forEach(item => breakdown[item.sentiment.toLowerCase()] = ...)
RECURSIVE FillBreakdown(_, _, _)
FillBreakdown(breakdown, rows, total) ==
  IF rows = <<>> THEN breakdown
  ELSE LET key == JoinChars(ToLowerCase(rows[1].sentiment))
       IN  FillBreakdown([breakdown EXCEPT ![key] =
                            [count |-> rows[1].count,
                             percentage |-> Percentage(rows[1].count, total)]],
                         Tail(rows), total)

NoAiSummary == [present |-> FALSE, value |-> getNullCommunityAnalysis]

\* A request of the route or a call of analyzeCommunitySentiment, before its
\* inputs are filled in
CommBlank ==
  [pc |-> "blank", periodParam |-> "", counts |-> <<0, 0, 0>>, nQuality |-> 0,
   late |-> 0, nPosts |-> 0, apiKey |-> FALSE,
   upstream |-> [kind |-> "error", text |-> NoCommunityText],
   calls |-> 0, analysis |-> getNullCommunityAnalysis,
   status |-> 0, period |-> "", total |-> 0, breakdown |-> EmptyBreakdown,
   aiSummary |-> NoAiSummary, qualityPostCount |-> 0]

\* How the provider behaves during one request of the route
CommunityProviders ==
  { [apiKey |-> FALSE, upstream |-> [kind |-> "error", text |-> NoCommunityText]],
    [apiKey |-> TRUE, upstream |-> [kind |-> "error", text |-> NoCommunityText]],
    [apiKey |-> TRUE,
     upstream |-> [kind |-> "text",
                   text |-> [kind |-> "json",
                             parsed |-> [summary |-> StrVal(<<"o","k">>),
                                         keyThemes |-> NoThemes,
                                         sentimentStrength |-> StrVal(<<"w","e","a","k">>),
                                         confidence |-> StrVal(<<"l","o","w">>)]]]] }

Min(a, b) == IF a < b THEN a ELSE b

\* Requests of the route: the period parameter, the posts in the window by
\* label when the groupBy runs, how many of them have qualityScore > 0.4, and
\* the provider
RouteRequests ==
  { [CommBlank EXCEPT !.pc = "route", !.periodParam = p, !.counts = <<b, be, n>>,
                     !.nQuality = q, !.apiKey = pr.apiKey, !.upstream = pr.upstream] :
      p \in {"7d", "1y"}, b \in 0..MaxLabelCount, be \in 0..MaxLabelCount,
      n \in 0..MaxNeutralCount, q \in 0..MaxQualityPosts, pr \in CommunityProviders }

\* Direct calls of analyzeCommunitySentiment
DirectCalls ==
  { [CommBlank EXCEPT !.pc = "direct", !.nPosts = n, !.apiKey = k, !.upstream = u] :
      n \in 0..MaxPosts, k \in BOOLEAN, u \in CommunityUpstreams }

CommInit ==
  /\ comm \in {r \in RouteRequests : r.nQuality <= r.counts[1] + r.counts[2] + r.counts[3]}
                \cup DirectCalls
  /\ norm = NormIdle
  /\ score = ScoreIdle
  /\ adapter = AdapterIdle
  /\ AnalyzeIdle
  /\ NewsIdle
  /\ LibIdleExcept("comm")

AnalyzeCommunity ==
  /\ comm.pc = "direct"
  /\ LET r == analyzeCommunitySentiment(comm.apiKey, comm.nPosts, comm.upstream)
     IN  comm' = [comm EXCEPT !.pc = "returned", !.calls = r.calls, !.analysis = r.analysis]
  /\ UNCHANGED coreVars
  /\ LibUnchangedExcept("comm")

\* The response of the route
CommunityResponse(c, qualityPostCount) ==
  LET r == analyzeCommunitySentiment(c.apiKey, qualityPostCount, c.upstream)
      called == c.total >= 3 /\ qualityPostCount >= 3
  IN  [c EXCEPT !.pc = "responded", !.status = 200,
                !.qualityPostCount = qualityPostCount,
                !.nPosts = IF called THEN qualityPostCount ELSE 0,
                !.calls = IF called THEN r.calls ELSE 0,
                !.aiSummary = IF called
                              THEN [present |-> TRUE, value |-> r.analysis]
                              ELSE NoAiSummary]

\* The handler up to the end of await db.post.groupBy(...), which throws when
\* dbFail; with fewer than 3 posts counted it responds without a second query
CountBySentiment ==
  /\ comm.pc = "route"
  /\ \E dbFail \in BOOLEAN :
       IF dbFail
       THEN comm' = [comm EXCEPT !.pc = "responded", !.status = 500]
       ELSE LET period == IF comm.periodParam \in VALID_PERIODS
                          THEN comm.periodParam ELSE "24h"
                sentimentCounts == GroupBySentiment(comm.counts)
                total == SumCounts(sentimentCounts)
                breakdown == FillBreakdown(EmptyBreakdown, sentimentCounts, total)
                counted == [comm EXCEPT !.period = period, !.total = total,
                                        !.breakdown = breakdown]
            IN  IF total >= 3
                THEN comm' = [counted EXCEPT !.pc = "findMany"]
                ELSE comm' = CommunityResponse(counted, 0)
  /\ UNCHANGED coreVars
  /\ LibUnchangedExcept("comm")

\* While the handler waits, between its two queries or for the analysis, the
\* db.post.update of analyze-post (or of POST /api/posts/[id]/analyze) writes
\* the qualityScore of a post of the ticker, whatever the post held: a post
\* without a score above 0.4 (a new post among them) gets one, and one more
\* post has qualityScore > 0.4; or a post that had one is analyzed again and
\* gets a score of 0.4 or less, or null when the analysis is unavailable, and
\* one post fewer has qualityScore > 0.4
PostScoredMeanwhile ==
  /\ comm.pc \in {"findMany", "analyze"}
  /\ comm.late < MaxLatePosts
  /\ \E scoredAbove \in BOOLEAN :
       /\ ~scoredAbove => comm.nQuality > 0
       /\ comm' = [comm EXCEPT
                      !.late = comm.late + 1,
                      !.nQuality = IF scoredAbove THEN comm.nQuality + 1
                                   ELSE comm.nQuality - 1]
  /\ UNCHANGED coreVars
  /\ LibUnchangedExcept("comm")

\* await db.post.findMany(...), which throws when dbFail, and
\* qualityPostCount = qualityPosts.length; with fewer than 3 quality posts
\* the handler responds without calling analyzeCommunitySentiment
FindQualityPosts ==
  /\ comm.pc = "findMany"
  /\ \E dbFail \in BOOLEAN :
       IF dbFail
       THEN comm' = [comm EXCEPT !.pc = "responded", !.status = 500]
       ELSE LET qualityPostCount == Min(comm.nQuality, QualityTake)
            IN  IF qualityPostCount >= 3
                THEN comm' = [comm EXCEPT !.pc = "analyze",
                                          !.qualityPostCount = qualityPostCount]
                ELSE comm' = CommunityResponse(comm, qualityPostCount)
  /\ UNCHANGED coreVars
  /\ LibUnchangedExcept("comm")

\* aiSummary = await analyzeCommunitySentiment(...) on the posts findMany
\* returned, and the response
SummarizeQualityPosts ==
  /\ comm.pc = "analyze"
  /\ comm' = CommunityResponse(comm, comm.qualityPostCount)
  /\ UNCHANGED coreVars
  /\ LibUnchangedExcept("comm")

CommNext ==
  \/ AnalyzeCommunity
  \/ CountBySentiment
  \/ PostScoredMeanwhile
  \/ FindQualityPosts
  \/ SummarizeQualityPosts

SpecCommunity == CommInit /\ [][CommNext]_vars

(***************************************************************************)
(* C12: a call of analyzeCommunitySentiment with fewer than 3 posts makes  *)
(* no upstream call and returns the unavailable result: summary, strength  *)
(* and confidence absent, no themes.                                       *)
(***************************************************************************)
C12_NoUpstreamCallBelowThreePosts ==
  (comm.pc = "returned" /\ comm.nPosts < 3) =>
    /\ comm.calls = 0
    /\ comm.analysis.summary = NullStr
    /\ comm.analysis.sentimentStrength = NullStr
    /\ comm.analysis.confidence = NullStr
    /\ comm.analysis.keyThemes = <<>>

C12_Witness ==
  /\ comm.pc = "returned"
  /\ comm.nPosts = 2
  /\ comm.apiKey
  /\ comm.upstream.kind = "text"
  /\ comm.upstream.text.kind = "json"
  /\ comm.calls = 0
  /\ comm.analysis = getNullCommunityAnalysis

(***************************************************************************)
(* Trending tickers: refreshTrendingFunction and GET /api/trending, one    *)
(* run of each, interleaved at their awaits with each other, with the      *)
(* clock and with posts being created.  A post is [createdAt,          *)
(* tickers]; times are in milliseconds.  The query orders the groups by    *)
(* count only, so the order of groups of equal count is whatever the       *)
(* database produces: dbOrder names the order it uses for one query.       *)
(*                                                                         *)
(* trend.posts - the posts with their tickers                              *)
(* trend.late  - a post was created after the handlers started             *)
(* trend.now   - the clock                                                 *)
(* trend.row   - the singleton TrendingCache row                           *)
(* trend.job   - the run of refresh-trending: the call it has reached, its *)
(*               list, and the posts and instant the list was counted for  *)
(* trend.route - the request of GET /api/trending: the call it has         *)
(*               reached, its locals and its response                      *)
(***************************************************************************)
MaxTrendSymbols == 11
MaxTrendPosts == 1
MaxTrendTicks == 1

\* 24 * 60 * 60 * 1000
TrendWindowMs == 24 * 60 * 60 * 1000

\* take: 10
TrendingTake == 10

\* 10 * 60 * 1000
CACHE_DURATION_MS == 10 * 60 * 1000

\* Ticker symbols, in lexical order
AllTickers ==
  <<"AAPL", "AMD", "AMZN", "BAC", "COIN", "GOOG", "META", "MSFT", "NFLX", "NVDA",
    "PLTR", "SPY", "TSLA", "UBER">>

TrendSymbols == {AllTickers[i] : i \in 1..MaxTrendSymbols}

\* The place of each symbol in lexical order
TickerPlaces ==
  [sym \in {AllTickers[i] : i \in 1..Len(AllTickers)} |->
     CHOOSE i \in 1..Len(AllTickers) : AllTickers[i] = sym]

TickerIndex(sym) == TickerPlaces[sym]

DbOrders == {"ascending", "descending", "shifted"}

\* The place of a symbol's group among groups of equal count
DbRank(dbOrder, sym) ==
  CASE dbOrder = "ascending" -> TickerIndex(sym)
    [] dbOrder = "descending" -> Len(AllTickers) + 1 - TickerIndex(sym)
    [] dbOrder = "shifted" -> (TickerIndex(sym) + 2) % Len(AllTickers)

\* db.postTicker.groupBy({ by: symbol, _count, where: createdAt >= last24h,
\*                         orderBy: _count desc, take: 10 }) and the map to
\* { symbol, count }: the first n groups by count, groups of equal count as
\* the database places them
RECURSIVE TakeGroups(_, _, _, _)
TakeGroups(count, groups, dbOrder, n) ==
  IF n = 0 \/ groups = {} THEN <<>>
  ELSE LET first == CHOOSE s \in groups :
                      \A u \in groups \ {s} :
                        \/ count[s] > count[u]
                        \/ count[s] = count[u] /\ DbRank(dbOrder, s) < DbRank(dbOrder, u)
       IN  <<[symbol |-> first, count |-> count[first]]>>
             \o TakeGroups(count, groups \ {first}, dbOrder, n - 1)

\* at: Date.now() of the cutoff; posts: the table when the query runs
calculateTrending(posts, at, dbOrder) ==
  LET last24h == at - TrendWindowMs
      count == [sym \in TrendSymbols |->
                  Cardinality({p \in posts : p.createdAt >= last24h /\ sym \in p.tickers})]
      groups == {sym \in TrendSymbols : count[sym] > 0}
  IN  TakeGroups(count, groups, dbOrder, TrendingTake)

TrendNow == 2 * TrendWindowMs

\* Posts: created just before, at, or just after the instant now - 24h, and
\* mentioning one of the first three symbols or every symbol
MentionSets == {{AllTickers[i]} : i \in 1..3} \cup {TrendSymbols}

PostKinds ==
  [createdAt : {TrendNow - TrendWindowMs + d : d \in {-1, 0, 1}}, tickers : MentionSets]

PostTables == {posts \in SUBSET PostKinds : Cardinality(posts) <= MaxTrendPosts}

NoTrendingRow == [present |-> FALSE, data |-> <<>>, updatedAt |-> 0]

\* The TrendingCache row before the computation: none, one that is
\* CACHE_DURATION_MS old, or one that is a millisecond younger
TrendingRows ==
  { NoTrendingRow,
    [present |-> TRUE, data |-> <<>>, updatedAt |-> TrendNow - CACHE_DURATION_MS],
    [present |-> TRUE, data |-> <<[symbol |-> AllTickers[1], count |-> 1]>>,
     updatedAt |-> TrendNow - CACHE_DURATION_MS + 1] }

JobStart == [pc |-> "start", trendingData |-> <<>>, seen |-> {}, at |-> 0]

\* The locals of the handler of GET /api/trending: cached is the row
\* findUnique returned (cache), at the clock read of line 284 (now)
RouteStart ==
  [pc |-> "findUnique", cached |-> NoTrendingRow, at |-> 0, computed |-> FALSE,
   list |-> <<>>, seen |-> {}, status |-> 0, trending |-> <<>>, updatedAt |-> 0]

TrendInit ==
  /\ trend \in [posts : PostTables, late : {FALSE}, now : {TrendNow},
                row : TrendingRows, job : {JobStart}, route : {RouteStart}]
  /\ norm = NormIdle
  /\ score = ScoreIdle
  /\ adapter = AdapterIdle
  /\ AnalyzeIdle
  /\ NewsIdle
  /\ LibIdleExcept("trend")

\* The clock moves
TrendTick ==
  /\ trend.now < TrendNow + MaxTrendTicks
  /\ trend' = [trend EXCEPT !.now = trend.now + 1]
  /\ UNCHANGED coreVars
  /\ LibUnchangedExcept("trend")

\* POST /api/posts stores a post mentioning the first symbol (one such post
\* in a behaviour)
TrendNewPost ==
  /\ ~trend.late
  /\ trend' = [trend EXCEPT
                 !.late = TRUE,
                 !.posts = trend.posts \cup {[createdAt |-> trend.now,
                                              tickers |-> {AllTickers[1]}]}]
  /\ UNCHANGED coreVars
  /\ LibUnchangedExcept("trend")

\* refreshTrendingFunction up to the call of db.postTicker.groupBy(...): at is
\* Date.now() of line 96, read before the query is sent
RefreshTrendingStart ==
  /\ trend.job.pc = "start"
  /\ trend' = [trend EXCEPT !.job.pc = "groupBy", !.job.at = trend.now]
  /\ UNCHANGED coreVars
  /\ LibUnchangedExcept("trend")

\* await db.postTicker.groupBy(...) of refreshTrendingFunction: the database
\* runs the query on the posts stored by then, with the cutoff computed at
\* the start.  The function has no try/catch: when the query rejects (dbFail)
\* the run fails with the row as it was.
RefreshTrending ==
  /\ trend.job.pc = "groupBy"
  /\ \E dbFail \in BOOLEAN, dbOrder \in DbOrders :
       IF dbFail
       THEN trend' = [trend EXCEPT !.job.pc = "failed"]
       ELSE trend' = [trend EXCEPT
                        !.job = [pc |-> "upsert",
                                 trendingData |->
                                   calculateTrending(trend.posts, trend.job.at, dbOrder),
                                 seen |-> trend.posts,
                                 at |-> trend.job.at]]
  /\ UNCHANGED coreVars
  /\ LibUnchangedExcept("trend")

\* The TrendingCache row a successful upsert leaves and returns.  The data
\* model says the row carries updatedAt and that the age of that timestamp is
\* the freshness signal; the handlers pass data only, so the timestamp is the
\* time of the write, set by the store.
UpsertedTrendingRow(data, at) == [present |-> TRUE, data |-> data, updatedAt |-> at]

\* await db.trendingCache.upsert(...) of refreshTrendingFunction and its
\* return
RefreshTrendingUpsert ==
  /\ trend.job.pc = "upsert"
  /\ \E dbFail \in BOOLEAN :
       IF dbFail
       THEN trend' = [trend EXCEPT !.job.pc = "failed"]
       ELSE trend' = [trend EXCEPT
                        !.job.pc = "done",
                        !.row = UpsertedTrendingRow(trend.job.trendingData, trend.now)]
  /\ UNCHANGED coreVars
  /\ LibUnchangedExcept("trend")

\* if (cache) { cacheAge = now - updatedAt; if (cacheAge <= CACHE_DURATION_MS) ... }
IsTrendingCacheFreshInclusive(row, at) ==
  row.present /\ at - row.updatedAt <= CACHE_DURATION_MS

\* if (cache) { cacheAge = now - updatedAt; if (cacheAge < CACHE_DURATION_MS) ... }
IsTrendingCacheFresh(row, at) ==
  row.present /\ at - row.updatedAt < CACHE_DURATION_MS

\* catch (error) { return NextResponse.json({ error }, { status: 500 }) }
TrendingError(r) == [r EXCEPT !.pc = "done", !.status = 500]

\* const cache = await db.trendingCache.findUnique(...), which throws when
\* dbFail
GetTrending ==
  /\ trend.route.pc = "findUnique"
  /\ \E dbFail \in BOOLEAN :
       IF dbFail THEN trend' = [trend EXCEPT !.route = TrendingError(trend.route)]
       ELSE trend' = [trend EXCEPT
                        !.route = [trend.route EXCEPT !.pc = "check", !.cached = trend.row]]
  /\ UNCHANGED coreVars
  /\ LibUnchangedExcept("trend")

\* The handler resumes after findUnique: const now = Date.now(), the freshness
\* test and, the row read being absent or not fresh, calculateTrending up to
\* its query.  at is Date.now() of line 284 and, no await lying between, of
\* line 345.
GetTrendingCheck ==
  /\ trend.route.pc = "check"
  /\ IF IsTrendingCacheFresh(trend.route.cached, trend.now)
     THEN trend' = [trend EXCEPT
                      !.route = [trend.route EXCEPT
                                   !.pc = "done", !.status = 200,
                                   !.at = trend.now,
                                   !.trending = trend.route.cached.data,
                                   !.updatedAt = trend.route.cached.updatedAt]]
     ELSE trend' = [trend EXCEPT
                      !.route = [trend.route EXCEPT !.pc = "groupBy", !.at = trend.now]]
  /\ UNCHANGED coreVars
  /\ LibUnchangedExcept("trend")

\* await db.postTicker.groupBy(...) of calculateTrending
GetTrendingGroupBy ==
  /\ trend.route.pc = "groupBy"
  /\ \E dbFail \in BOOLEAN, dbOrder \in DbOrders :
       IF dbFail THEN trend' = [trend EXCEPT !.route = TrendingError(trend.route)]
       ELSE trend' = [trend EXCEPT
                        !.route = [trend.route EXCEPT
                                     !.pc = "upsert", !.computed = TRUE,
                                     !.list = calculateTrending(trend.posts,
                                                trend.route.at, dbOrder),
                                     !.seen = trend.posts]]
  /\ UNCHANGED coreVars
  /\ LibUnchangedExcept("trend")

\* updatedCache = await db.trendingCache.upsert(...) and the response built
\* from it
GetTrendingUpsert ==
  /\ trend.route.pc = "upsert"
  /\ \E dbFail \in BOOLEAN :
       IF dbFail THEN trend' = [trend EXCEPT !.route = TrendingError(trend.route)]
       ELSE LET updatedCache == UpsertedTrendingRow(trend.route.list, trend.now)
            IN  trend' = [trend EXCEPT
                            !.row = updatedCache,
                            !.route = [trend.route EXCEPT
                                         !.pc = "done", !.status = 200,
                                         !.trending = updatedCache.data,
                                         !.updatedAt = updatedCache.updatedAt]]
  /\ UNCHANGED coreVars
  /\ LibUnchangedExcept("trend")

TrendNext ==
  \/ TrendTick
  \/ TrendNewPost
  \/ RefreshTrendingStart
  \/ RefreshTrending
  \/ RefreshTrendingUpsert
  \/ GetTrending
  \/ GetTrendingCheck
  \/ GetTrendingGroupBy
  \/ GetTrendingUpsert

SpecTrending == TrendInit /\ [][TrendNext]_vars

\* Mentions of sym in posts created after the instant at - 24h
MentionsAfter(posts, at, sym) ==
  Cardinality({p \in posts : p.createdAt > at - TrendWindowMs /\ sym \in p.tickers})

\* Mentions of sym in posts created at or after the instant at - 24h
MentionsFrom(posts, at, sym) ==
  Cardinality({p \in posts : p.createdAt >= at - TrendWindowMs /\ sym \in p.tickers})

\* The list is at most 10 long, ordered by count descending and, for equal
\* counts, by symbol, and no group of the posts counted that it leaves out
\* precedes one it keeps
TopTenCountThenSymbol(t, posts, at) ==
  LET kept == {t[i].symbol : i \in 1..Len(t)}
  IN  /\ Len(t) <= 10
      /\ \A i \in 1..(Len(t) - 1) :
           \/ t[i].count > t[i + 1].count
           \/ /\ t[i].count = t[i + 1].count
              /\ TickerIndex(t[i].symbol) < TickerIndex(t[i + 1].symbol)
      /\ \A sym \in TrendSymbols \ kept :
           LET c == MentionsFrom(posts, at, sym)
           IN  \/ c = 0
               \/ /\ Len(t) = 10
                  /\ \/ c < t[10].count
                     \/ c = t[10].count /\ TickerIndex(t[10].symbol) < TickerIndex(sym)

(***************************************************************************)
(* C13: a trending computation (of the job and of the route) returns at    *)
(* most 10 entries, ordered by mention count descending, entries of equal  *)
(* count in lexical order of their symbols, and an entry left out never    *)
(* precedes an entry kept.                                                 *)
(***************************************************************************)
C13_TopTenCountThenSymbol ==
  /\ trend.job.pc \in {"upsert", "done"} =>
       TopTenCountThenSymbol(trend.job.trendingData, trend.job.seen, trend.job.at)
  /\ trend.route.computed =>
       TopTenCountThenSymbol(trend.route.list, trend.route.seen, trend.route.at)

\* Every count of the list is the number of mentions in posts created after
\* the instant at - 24h
CountsExcludeBoundary(t, posts, at) ==
  \A i \in 1..Len(t) : t[i].count = MentionsAfter(posts, at, t[i].symbol)

(***************************************************************************)
(* C14: a trending computation counts only posts created within the        *)
(* trailing 24 hours; a post created at exactly now - 24h is not counted.  *)
(***************************************************************************)
C14_BoundaryPostExcluded ==
  /\ trend.job.pc \in {"upsert", "done"} =>
       CountsExcludeBoundary(trend.job.trendingData, trend.job.seen, trend.job.at)
  /\ trend.route.computed =>
       CountsExcludeBoundary(trend.route.list, trend.route.seen, trend.route.at)

(***************************************************************************)
(* analyzePost while its upstream call is in flight.  Times are in         *)
(* milliseconds since the call started.  answerAt is the time at which the *)
(* upstream call settles with reply, or Never.  lib/gemini.ts races the    *)
(* call against timeout(10000).  lib/anthropic.ts awaits                   *)
(* anthropic.messages.create of a client built with new Anthropic(), whose *)
(* request timeout and retries are the defaults of the SDK: the SDK        *)
(* abandons a request that has not answered after its timeout, sends it    *)
(* again up to its number of retries and then rejects the call.            *)
(***************************************************************************)
PendTickMs == 5000
MaxPendTicks == 3

\* timeout(10000)
GEMINI_TIMEOUT_MS == 10000

Never == 0 - 1

\* new Anthropic(): the default request timeout of the SDK, 10 minutes
ANTHROPIC_DEFAULT_TIMEOUT_MS == 600000

\* new Anthropic(): the default number of retries of the SDK
ANTHROPIC_DEFAULT_MAX_RETRIES == 2

\* The time at which messages.create rejects when no attempt is answered
\* (the pauses between the attempts left out)
AnthropicDeadlineMs == (ANTHROPIC_DEFAULT_MAX_RETRIES + 1) * ANTHROPIC_DEFAULT_TIMEOUT_MS

\* Replies the upstream call can settle with
PendReplies ==
  {u \in Upstreams : u.kind # "text" \/ u.text.kind # "json"
                       \/ (u.text.parsed.qualityScore = Fin(7)
                             /\ u.text.parsed.insightType \in SampleInsightTypes
                             /\ u.text.parsed.summary.t = "other")}

PendInit ==
  /\ pend \in [pc : {"call"}, provider : {"anthropic", "gemini"}, apiKey : BOOLEAN,
               answerAt : {Never} \cup {k * PendTickMs : k \in 0..MaxPendTicks},
               reply : PendReplies, elapsed : {0}, timedOut : {FALSE},
               result : {getNullAnalysis}]
  /\ norm = NormIdle
  /\ score = ScoreIdle
  /\ adapter = AdapterIdle
  /\ AnalyzeIdle
  /\ NewsIdle
  /\ LibIdleExcept("pend")

\* analyzePost up to the await of the upstream call
StartUpstreamCall ==
  /\ pend.pc = "call"
  /\ pend' = IF pend.apiKey THEN [pend EXCEPT !.pc = "awaiting"]
             ELSE [pend EXCEPT !.pc = "returned", !.result = getNullAnalysis]
  /\ UNCHANGED coreVars
  /\ LibUnchangedExcept("pend")

PendTick ==
  /\ pend.pc = "awaiting"
  /\ pend.elapsed < MaxPendTicks * PendTickMs
  /\ pend' = [pend EXCEPT !.elapsed = pend.elapsed + PendTickMs]
  /\ UNCHANGED coreVars
  /\ LibUnchangedExcept("pend")

\* The upstream call settles and analyzePost runs to its return
UpstreamSettles ==
  /\ pend.pc = "awaiting"
  /\ pend.answerAt # Never
  /\ pend.elapsed >= pend.answerAt
  /\ pend' = [pend EXCEPT
                !.pc = "returned",
                !.result = IF pend.provider = "anthropic"
                           THEN analyzePost(TRUE, pend.reply).value
                           ELSE geminiAnalyzePost(TRUE, pend.reply).value]
  /\ UNCHANGED coreVars
  /\ LibUnchangedExcept("pend")

\* A race in which the timer is looked at only once the call has settled
GeminiTimeoutAfterSettling ==
  /\ pend.pc = "awaiting"
  /\ pend.provider = "gemini"
  /\ pend.answerAt # Never
  /\ pend.elapsed >= pend.answerAt
  /\ pend.elapsed >= GEMINI_TIMEOUT_MS
  /\ pend' = [pend EXCEPT !.pc = "returned", !.timedOut = TRUE,
                          !.result = getNullAnalysis]
  /\ UNCHANGED coreVars
  /\ LibUnchangedExcept("pend")

\* The timer of timeout(10000) wins the Promise.race: result is null
GeminiTimeout ==
  /\ pend.pc = "awaiting"
  /\ pend.provider = "gemini"
  /\ pend.elapsed >= GEMINI_TIMEOUT_MS
  /\ pend' = [pend EXCEPT !.pc = "returned", !.timedOut = TRUE,
                          !.result = getNullAnalysis]
  /\ UNCHANGED coreVars
  /\ LibUnchangedExcept("pend")

\* No attempt of messages.create is answered: time passes to the deadline of
\* the SDK, the call rejects with a timeout error and the catch of analyzePost
\* returns getNullAnalysis()
AnthropicTimeout ==
  /\ pend.pc = "awaiting"
  /\ pend.provider = "anthropic"
  /\ pend.answerAt = Never
  /\ pend.elapsed < AnthropicDeadlineMs
  /\ pend' = [pend EXCEPT !.pc = "returned", !.timedOut = TRUE,
                          !.elapsed = AnthropicDeadlineMs,
                          !.result = TryCatch(Throw, getNullAnalysis).value]
  /\ UNCHANGED coreVars
  /\ LibUnchangedExcept("pend")

PendNext ==
  \/ StartUpstreamCall
  \/ PendTick
  \/ UpstreamSettles
  \/ GeminiTimeout
  \/ AnthropicTimeout

SpecPending == PendInit /\ [][PendNext]_vars

\* Time passes and a due timer fires
SpecPendingFair ==
  /\ SpecPending
  /\ WF_vars(StartUpstreamCall)
  /\ WF_vars(PendTick)
  /\ WF_vars(GeminiTimeout)
  /\ WF_vars(AnthropicTimeout)

(***************************************************************************)
(* C15: when the upstream call never answers, analyzePost still returns,   *)
(* with the all-absent result, once its timeout has expired: a call that   *)
(* waits on a silent provider does not wait forever.                       *)
(***************************************************************************)
C15_ReturnsThoughUpstreamSilent ==
  (pend.pc = "awaiting" /\ pend.answerAt = Never)
    ~> (pend.pc = "returned" /\ pend.timedOut /\ pend.result = getNullAnalysis)

C15_Witness ==
  /\ pend.pc = "returned"
  /\ pend.apiKey
  /\ pend.answerAt = Never
  /\ pend.timedOut
  /\ pend.elapsed >= GEMINI_TIMEOUT_MS
  /\ pend.result = getNullAnalysis

(***************************************************************************)
(* One upsert of a NewsSentimentCache row, by the refresh job or by the    *)
(* news-sentiment route, for any behaviour of the provider: the analysis   *)
(* of at least 3 articles, the score computed from it, the row written.    *)
(***************************************************************************)
RowUpstreams ==
  {[kind |-> "error", text |-> [kind |-> "none", parsed |-> NoTriple]],
   [kind |-> "text", text |-> [kind |-> "badjson", parsed |-> NoTriple]]}
    \cup [kind : {"text"}, text : [kind : {"json"}, parsed : ParsedTriples]]

RowProviders ==
  {[apiKey |-> FALSE, upstream |-> [kind |-> "error", text |-> [kind |-> "none", parsed |-> NoTriple]]]}
    \cup [apiKey : {TRUE}, upstream : RowUpstreams]

NewsRowInit ==
  /\ \E provider \in RowProviders :
       newsrow \in [pc : {"analyze"}, caller : {"job", "route"}, n : {MIN_ARTICLES},
                    apiKey : {provider.apiKey}, upstream : {provider.upstream},
                    row : {NoRow}]
  /\ norm = NormIdle
  /\ score = ScoreIdle
  /\ adapter = AdapterIdle
  /\ AnalyzeIdle
  /\ NewsIdle
  /\ LibIdleExcept("newsrow")

\* analyzeNewsSentiment, companyNewsScore and db.newsSentimentCache.upsert
UpsertNewsRow ==
  /\ newsrow.pc = "analyze"
  /\ LET aiAnalysis == analyzeNewsSentiment(newsrow.n, newsrow.apiKey, newsrow.upstream)
     IN  newsrow' = [newsrow EXCEPT !.pc = "stored",
                                    !.row = SentimentRow(aiAnalysis, newsrow.n, 0)]
  /\ UNCHANGED coreVars
  /\ LibUnchangedExcept("newsrow")

NewsRowNext == UpsertNewsRow

SpecNewsRow == NewsRowInit /\ [][NewsRowNext]_vars

(***************************************************************************)
(* C16: every stored NewsSentimentCache row has companyNewsScore equal to  *)
(* (bullishPercent - bearishPercent) / 100, and the score is in [-1, 1]    *)
(* (the model keeps the score in hundredths).                              *)
(***************************************************************************)
C16_ScoreIsDifferenceWithinUnit ==
  newsrow.pc = "stored" =>
    /\ newsrow.row.companyNewsScore
         = JSSub(newsrow.row.bullishPercent, newsrow.row.bearishPercent)
    /\ newsrow.row.companyNewsScore.k = "fin"
    /\ newsrow.row.companyNewsScore.v >= -100
    /\ newsrow.row.companyNewsScore.v <= 100

(***************************************************************************)
(* The field validators, each called on its own with any input.            *)
(***************************************************************************)
MaxSummaryInputLen == 153
MaxPad == 2

EnumValues == VALID_INSIGHT_TYPES \cup VALID_SENTIMENT_STRENGTHS \cup VALID_CONFIDENCE_LEVELS

\* str with every code unit from replaced by to
ReplaceUnit(str, from, to) == [i \in 1..Len(str) |-> IF str[i] = from THEN to ELSE str[i]]

\* Ways a model writes an enum value: as is, in other letter cases, with a
\* letter that is not ASCII (the Kelvin sign, the dotted capital I, the
\* long s), padded with whitespace, and misspelt
Spellings(v) ==
  { v, ToUpperCase(v), TitleCaseWords(v),
    ReplaceUnit(v, "k", "U+212A"), ReplaceUnit(v, "i", "U+0130"),
    ReplaceUnit(v, "s", "U+017F"),
    <<" ">> \o v, v \o <<"\n">>, <<"\t", " ">> \o ToUpperCase(v) \o <<" ">>,
    <<"\r">> \o v \o <<"\r">>, <<"U+00A0">> \o v, v \o <<"U+000B">>,
    v \o <<"s">>, <<"x">> \o v, SubSeq(v, 1, Len(v) - 1),
    <<v[1], " ">> \o Tail(v) }

EnumInputs ==
  {StrVal(s) : s \in UNION {Spellings(v) : v \in EnumValues}}
    \cup {StrVal(<<>>), StrVal(<<" ">>), NotAString}

\* A text of n characters, every character a letter set by its position
Letters(n) == [i \in 1..n |-> LowerLetters[(i % 26) + 1]]

\* n characters of white space: a space, a carriage return, a no-break space, ...
Spaces(n) == [i \in 1..n |-> <<" ", "\r", "U+00A0">>[((i - 1) % 3) + 1]]

SummaryInputs ==
  {StrVal(Spaces(lead) \o Letters(n) \o Spaces(trail)) :
     lead \in 0..MaxPad, n \in 0..MaxSummaryInputLen, trail \in 0..MaxPad}
    \cup {NotAString}

ValidInit ==
  /\ valid \in [pc : {"call"}, fn : {"insightType", "sentimentStrength", "confidence"},
                input : EnumInputs, result : {NullStr}]
               \cup [pc : {"call"}, fn : {"summary"}, input : SummaryInputs,
                     result : {NullStr}]
  /\ norm = NormIdle
  /\ score = ScoreIdle
  /\ adapter = AdapterIdle
  /\ AnalyzeIdle
  /\ NewsIdle
  /\ LibIdleExcept("valid")

ValidateInsightType ==
  /\ valid.pc = "call" /\ valid.fn = "insightType"
  /\ valid' = [valid EXCEPT !.pc = "done", !.result = validateInsightType(valid.input)]
  /\ UNCHANGED coreVars
  /\ LibUnchangedExcept("valid")

ValidateSentimentStrength ==
  /\ valid.pc = "call" /\ valid.fn = "sentimentStrength"
  /\ valid' = [valid EXCEPT !.pc = "done",
                            !.result = validateSentimentStrength(valid.input)]
  /\ UNCHANGED coreVars
  /\ LibUnchangedExcept("valid")

ValidateConfidence ==
  /\ valid.pc = "call" /\ valid.fn = "confidence"
  /\ valid' = [valid EXCEPT !.pc = "done", !.result = validateConfidence(valid.input)]
  /\ UNCHANGED coreVars
  /\ LibUnchangedExcept("valid")

ValidateSummary ==
  /\ valid.pc = "call" /\ valid.fn = "summary"
  /\ valid' = [valid EXCEPT !.pc = "done", !.result = validateSummary(valid.input)]
  /\ UNCHANGED coreVars
  /\ LibUnchangedExcept("valid")

ValidNext ==
  \/ ValidateInsightType
  \/ ValidateSentimentStrength
  \/ ValidateConfidence
  \/ ValidateSummary

SpecValidators == ValidInit /\ [][ValidNext]_vars

\* The fixed value set of an enum field
FieldValues(fn) ==
  CASE fn = "insightType" -> VALID_INSIGHT_TYPES
    [] fn = "sentimentStrength" -> VALID_SENTIMENT_STRENGTHS
    [] fn = "confidence" -> VALID_CONFIDENCE_LEVELS

(***************************************************************************)
(* C17: validateInsightType, validateSentimentStrength and                 *)
(* validateConfidence return the trimmed, lower-cased input when it is one *)
(* of the field's 7, 4 or 3 values, and absent for every other input.      *)
(***************************************************************************)
C17_EnumNormalizedOrAbsent ==
  /\ Cardinality(VALID_INSIGHT_TYPES) = 7
  /\ Cardinality(VALID_SENTIMENT_STRENGTHS) = 4
  /\ Cardinality(VALID_CONFIDENCE_LEVELS) = 3
  /\ (valid.pc = "done" /\ valid.fn # "summary") =>
       IF valid.input.t = "string"
            /\ ToLowerCase(Trim(valid.input.s)) \in FieldValues(valid.fn)
       THEN valid.result = StrVal(ToLowerCase(Trim(valid.input.s)))
       ELSE valid.result = NullStr

C17_Witness ==
  /\ valid.pc = "done"
  /\ valid.fn = "confidence"
  /\ valid.input.t = "string"
  /\ ToLowerCase(Trim(valid.input.s)) \in VALID_INSIGHT_TYPES \cup VALID_SENTIMENT_STRENGTHS
  /\ valid.result = NullStr

(***************************************************************************)
(* C18: for a string input validateSummary returns absent when the input   *)
(* is empty after trimming, the trimmed input when it has at most 150      *)
(* characters, and otherwise its first 147 characters followed by "...",   *)
(* 150 characters in all; no returned summary is longer than 150.          *)
(***************************************************************************)
C18_SummaryTrimmedOrCutTo150 ==
  (valid.pc = "done" /\ valid.fn = "summary" /\ valid.input.t = "string") =>
    LET trimmed == Trim(valid.input.s)
    IN  /\ Len(trimmed) = 0 => valid.result = NullStr
        /\ (Len(trimmed) > 0 /\ Len(trimmed) <= 150) => valid.result = StrVal(trimmed)
        /\ Len(trimmed) > 150 =>
             /\ valid.result.t = "string"
             /\ Len(valid.result.s) = 150
             /\ SubSeq(valid.result.s, 1, 147) = SubSeq(trimmed, 1, 147)
             /\ SubSeq(valid.result.s, 148, 150) = <<".", ".", ".">>
        /\ valid.result.t = "string" => Len(valid.result.s) <= 150

C18_Witness ==
  /\ valid.pc = "done"
  /\ valid.fn = "summary"
  /\ valid.input.t = "string"
  /\ Len(Trim(valid.input.s)) = 151
  /\ Len(valid.input.s) > 151
  /\ Len(valid.result.s) = 150

(***************************************************************************)
(* C19: in a response of the sentiment route each label's percentage is    *)
(* round(100 * count / total), halves rounded up, when total > 0, and all  *)
(* three percentages are 0 when total = 0.                                 *)
(***************************************************************************)
C19_PercentageIsRoundedShare ==
  (comm.pc = "responded" /\ comm.status = 200) =>
    LET total == comm.counts[1] + comm.counts[2] + comm.counts[3]
        share(count) == IF total > 0 THEN (200 * count + total) \div (2 * total) ELSE 0
    IN  /\ comm.total = total
        /\ comm.breakdown.bullish = [count |-> comm.counts[1],
                                     percentage |-> share(comm.counts[1])]
        /\ comm.breakdown.bearish = [count |-> comm.counts[2],
                                     percentage |-> share(comm.counts[2])]
        /\ comm.breakdown.neutral = [count |-> comm.counts[3],
                                     percentage |-> share(comm.counts[3])]

(***************************************************************************)
(* cleanupOldNewsFunction.  Times are in half hours.  store holds the      *)
(* NewsArticle table (article id -> publishedAt, or NoArticle), the        *)
(* NewsSentimentCache rows and the TrendingCache row, the time zone of the *)
(* process and the run of the function: the statement it has reached, its  *)
(* cutoffDate, and the table as it was when the run started.               *)
(*                                                                         *)
(* Date.prototype.setDate works on the local calendar of the process: the  *)
(* date is taken apart into local year, month, day and time of day with    *)
(* the UTC offset in force at that instant, the day is changed, and the    *)
(* local time so obtained is turned back into an instant.  A time zone is  *)
(* [before, after, at]: the UTC offset is before up to the instant at and  *)
(* after from then on (before = after: no change of offset, as in UTC).    *)
(***************************************************************************)
MaxStoredArticles == 3
MaxLateArticles == 1

\* cutoffDate.setDate(cutoffDate.getDate() - 7)
RetentionDays == 7

\* retries: 1
CleanupRetries == 1

HalfHoursPerDay == 2 * 24

CleanupNow == 30 * HalfHoursPerDay

NoArticle == 0 - 1

\* The offset from UTC at the instant t
UtcOffset(zone, t) == IF t < zone.at THEN zone.before ELSE zone.after

\* LocalTime(t): the local time of the instant t
LocalTime(zone, t) == t + UtcOffset(zone, t)

\* UTC(local): the instant of a local time.  A local time that occurs twice
\* (clocks set back) is the earlier instant; one that does not occur (clocks
\* set forward) is read with the offset in force before the change.
UTCOfLocal(zone, local) ==
  IF local - zone.before < zone.at THEN local - zone.before
  ELSE IF local - zone.after >= zone.at THEN local - zone.after
  ELSE local - zone.before

\* d = new Date(at); d.setDate(d.getDate() - days)
setDateBack(at, days, zone) ==
  UTCOfLocal(zone, LocalTime(zone, at) - days * HalfHoursPerDay)

\* Time zones of the process: UTC, and a zone five hours west of Greenwich
\* that sets its clocks forward, or back, by an hour three days before the
\* run or half an hour less than seven days before it
TimeZones ==
  {[before |-> 0, after |-> 0, at |-> 0]}
    \cup [before : {0 - 10}, after : {0 - 8},
          at : {CleanupNow - 3 * HalfHoursPerDay,
                CleanupNow - RetentionDays * HalfHoursPerDay + 1}]
    \cup [before : {0 - 8}, after : {0 - 10},
          at : {CleanupNow - 3 * HalfHoursPerDay,
                CleanupNow - RetentionDays * HalfHoursPerDay + 1}]

\* publishedAt of stored articles: a day before the instant 7 * 24 hours
\* before the run, half an hour before it, at it, half an hour and an hour
\* after it, and at the time of the run
PublishedAts ==
  {CleanupNow - RetentionDays * HalfHoursPerDay + d : d \in {0 - HalfHoursPerDay, 0 - 1, 0, 1, 2}}
    \cup {CleanupNow}

ArticleTables == [1..MaxStoredArticles -> PublishedAts \cup {NoArticle}]

\* NewsSentimentCache before the run: empty, or rows written long ago and
\* just now
CleanupCaches ==
  { [sym \in Symbols |-> NoRow],
    [sym \in Symbols |->
       IF sym = ActiveSymbols[1] THEN SentimentRow(nullResult, MIN_ARTICLES, 0)
       ELSE SentimentRow(nullResult, MIN_ARTICLES, CleanupNow)] }

CleanupTrendingRows ==
  {NoTrendingRow, [present |-> TRUE, data |-> <<>>, updatedAt |-> 0]}

\* db.newsArticle.deleteMany({ where: { publishedAt: { lt: cutoffDate } } }):
\* the table after the call
deleteManyBefore(articles, cutoffDate) ==
  [id \in DOMAIN articles |->
     IF articles[id] # NoArticle /\ articles[id] < cutoffDate
     THEN NoArticle ELSE articles[id]]

CleanupInit ==
  /\ \E articles \in ArticleTables :
       store \in [pc : {"scheduled"}, now : {CleanupNow},
                  zone : TimeZones, articles : {articles},
                  cache : CleanupCaches, trending : CleanupTrendingRows,
                  attempts : {0}, deletedCount : {0}, cutoffDate : {0},
                  atStart : {articles}, late : {0}]
  /\ norm = NormIdle
  /\ score = ScoreIdle
  /\ adapter = AdapterIdle
  /\ AnalyzeIdle
  /\ NewsIdle
  /\ LibIdleExcept("store")

\* The function body up to the call of deleteMany:
\* cutoffDate = new Date(); cutoffDate.setDate(cutoffDate.getDate() - 7)
CleanupOldNews ==
  /\ store.pc = "scheduled"
  /\ store' = [store EXCEPT
                 !.pc = "deleteMany",
                 !.attempts = store.attempts + 1,
                 !.atStart = store.articles,
                 !.cutoffDate = setDateBack(store.now, RetentionDays, store.zone)]
  /\ UNCHANGED coreVars
  /\ LibUnchangedExcept("store")

\* await db.newsArticle.deleteMany(...), which throws when dbFail: the run
\* fails, the function having no try/catch
DeleteOldNews ==
  /\ store.pc = "deleteMany"
  /\ \E dbFail \in BOOLEAN :
       IF dbFail
       THEN store' = [store EXCEPT !.pc = "failed"]
       ELSE LET remaining == deleteManyBefore(store.articles, store.cutoffDate)
            IN  store' = [store EXCEPT
                            !.pc = "deleted",
                            !.articles = remaining,
                            !.deletedCount =
                              Cardinality({id \in DOMAIN remaining :
                                             remaining[id] # store.articles[id]})]
  /\ UNCHANGED coreVars
  /\ LibUnchangedExcept("store")

\* The function resumes after deleteMany: logger.info and
\* return { deletedCount, cutoffDate }
ReturnCleanup ==
  /\ store.pc = "deleted"
  /\ store' = [store EXCEPT !.pc = "completed"]
  /\ UNCHANGED coreVars
  /\ LibUnchangedExcept("store")

\* The dispatcher runs a failed run again, CleanupRetries times at most
RetryCleanup ==
  /\ store.pc = "failed"
  /\ store.attempts <= CleanupRetries
  /\ store' = [store EXCEPT !.pc = "scheduled"]
  /\ UNCHANGED coreVars
  /\ LibUnchangedExcept("store")

\* db.newsArticle.upsert of a refresh of the news sentiment (the scheduled
\* job or a read of the route) while the cleanup run is under way: a row
\* that is not in the table is created, for an article the news provider
\* returned, published today or at the far end of the provider's window
UpsertNewsArticle ==
  /\ store.pc \in {"scheduled", "deleteMany", "deleted"}
  /\ store.late < MaxLateArticles
  /\ \E id \in DOMAIN store.articles :
     \E publishedAt \in {CleanupNow - (RetentionDays + 1) * HalfHoursPerDay, CleanupNow} :
       /\ store.articles[id] = NoArticle
       /\ \A other \in DOMAIN store.articles : store.articles[other] = NoArticle => id <= other
       /\ store' = [store EXCEPT !.late = store.late + 1,
                                 !.articles = [store.articles EXCEPT ![id] = publishedAt]]
  /\ UNCHANGED coreVars
  /\ LibUnchangedExcept("store")

CleanupNext ==
  \/ CleanupOldNews
  \/ DeleteOldNews
  \/ ReturnCleanup
  \/ RetryCleanup
  \/ UpsertNewsArticle

SpecCleanup == CleanupInit /\ [][CleanupNext]_vars

(***************************************************************************)
(* C20: when a cleanup run completes, no article published earlier than 7  *)
(* days (7 * 24 hours) before the run remains, every article published     *)
(* within the last 7 days is still there unchanged, and no step of the run *)
(* changes a NewsSentimentCache row or the trending row.                   *)
(***************************************************************************)
C20_Step ==
  /\ (store.pc = "deleted" /\ store'.pc = "completed") =>
       /\ \A id \in DOMAIN store'.articles :
            store'.articles[id] # NoArticle =>
              store'.articles[id] >= store.now - 7 * 24 * 2
       /\ \A id \in DOMAIN store.atStart :
            (store.atStart[id] # NoArticle /\ store.atStart[id] >= store.now - 7 * 24 * 2)
              => store'.articles[id] = store.atStart[id]
  /\ store'.pc # store.pc =>
       /\ store'.cache = store.cache
       /\ store'.trending = store.trending

C20_OnlyOldArticlesPurged == [][C20_Step]_vars

(***************************************************************************)
(* The rows written by one run of each background job.  Times are in half *)
(* hours.  wset holds the NewsArticle table of one ticker (url ->          *)
(* publishedAt, or NoArticle), the articles the news provider offers for   *)
(* it, and, per job type, the keys of the rows its run wrote or deleted.   *)
(* refresh-news-sentiment takes one step per awaited upsert, so            *)
(* cleanup-old-news can run between two of its article upserts.            *)
(***************************************************************************)
MaxFeedUrls == 3

MaxPostIds == 2

\* { cron: "0 3 * * *" }
CleanupCronHour == 3

\* getCompanyNews(symbol, 7)
NewsDaysBack == 7

JobTypes ==
  {"analyze-post", "refresh-trending", "refresh-news-sentiment", "cleanup-old-news"}

WsetNow == 30 * HalfHoursPerDay + 2 * CleanupCronHour

FeedUrls == {"u" \o ToString(i) : i \in 1..MaxFeedUrls}

PostIds == {"p" \o ToString(i) : i \in 1..MaxPostIds}

\* fromDate.setDate(fromDate.getDate() - daysBack);
\* fromDate.toISOString().split("T")[0]: the start of the UTC day of the
\* instant setDate gives
fetchWindowFrom(at, daysBack, zone) ==
  (setDateBack(at, daysBack, zone) \div HalfHoursPerDay) * HalfHoursPerDay

\* publishedAt of the articles the provider can offer: from the start of
\* the requested window up to half an hour before the call
FeedPublishedAts(zone) ==
  {fetchWindowFrom(WsetNow, NewsDaysBack, zone) + d :
     d \in {0, 1, 2 * CleanupCronHour, 2 * CleanupCronHour + 1}}
    \cup {WsetNow - 1}

Feeds(zone) == [FeedUrls -> FeedPublishedAts(zone) \cup {NoArticle}]

\* The urls in the order of the provider's list
UrlOrder == [i \in 1..MaxFeedUrls |-> "u" \o ToString(i)]

\* NewsArticle rows stored by earlier runs
StoredTables(zone) ==
  { [u \in FeedUrls |-> NoArticle],
    [u \in FeedUrls |->
       IF u = "u1" THEN fetchWindowFrom(WsetNow, NewsDaysBack, zone)
       ELSE NoArticle] }

RowKey(table, key) == [table |-> table, key |-> key]

NoWrites == [j \in JobTypes |-> {}]

WsetInit ==
  /\ \E zone \in TimeZones :
       wset \in [pc : {"scheduled"}, now : {WsetNow}, zone : {zone},
                 symbol : {ActiveSymbols[1]}, postId : PostIds,
                 feed : Feeds(zone), table : StoredTables(zone),
                 writes : {NoWrites}, ran : {{}}, next : {0}]
  /\ norm = NormIdle
  /\ score = ScoreIdle
  /\ adapter = AdapterIdle
  /\ AnalyzeIdle
  /\ NewsIdle
  /\ LibIdleExcept("wset")

\* analyzePostFunction: db.post.update({ where: { id: postId } }); a run
\* whose call throws writes nothing
JobAnalyzePost ==
  /\ "analyze-post" \notin wset.ran
  /\ \E dbFail \in BOOLEAN :
       wset' = [wset EXCEPT
                  !.ran = @ \cup {"analyze-post"},
                  !.writes["analyze-post"] =
                     IF dbFail THEN @ ELSE {RowKey("Post", wset.postId)}]
  /\ UNCHANGED coreVars
  /\ LibUnchangedExcept("wset")

\* refreshTrendingFunction: db.trendingCache.upsert({ where: { id: 'singleton' } });
\* a run whose groupBy or upsert throws writes nothing
JobRefreshTrending ==
  /\ "refresh-trending" \notin wset.ran
  /\ \E dbFail \in BOOLEAN :
       wset' = [wset EXCEPT
                  !.ran = @ \cup {"refresh-trending"},
                  !.writes["refresh-trending"] =
                     IF dbFail THEN @ ELSE {RowKey("TrendingCache", "singleton")}]
  /\ UNCHANGED coreVars
  /\ LibUnchangedExcept("wset")

\* The articles getCompanyNews returned, in order
FetchedUrls(feed) == SelectSeq(UrlOrder, LAMBDA u : feed[u] # NoArticle)

\* refreshNewsSentimentFunction for one ticker, up to the end of
\* await db.newsSentimentCache.upsert(...): skipped below MIN_ARTICLES; when
\* the upsert throws the iteration ends with nothing written.  next is the
\* place in the list of the article to store next.
JobRefreshNewsSentiment ==
  /\ "refresh-news-sentiment" \notin wset.ran
  /\ wset.next = 0
  /\ \E upsertThrows \in BOOLEAN :
       IF Len(FetchedUrls(wset.feed)) < MIN_ARTICLES \/ upsertThrows
       THEN wset' = [wset EXCEPT !.ran = @ \cup {"refresh-news-sentiment"}]
       ELSE wset' = [wset EXCEPT
                       !.next = 1,
                       !.writes["refresh-news-sentiment"] =
                          {RowKey("NewsSentimentCache", wset.symbol)}]
  /\ UNCHANGED coreVars
  /\ LibUnchangedExcept("wset")

\* One await db.newsArticle.upsert(...) of the loop over articlesToStore: an
\* existing row keeps its publishedAt.  When it throws the iteration ends with
\* the rows written so far in place.
JobStoreArticle ==
  /\ "refresh-news-sentiment" \notin wset.ran
  /\ wset.next >= 1
  /\ LET articlesToStore == FetchedUrls(wset.feed)
     IN  IF wset.next > Len(articlesToStore)
         THEN wset' = [wset EXCEPT !.ran = @ \cup {"refresh-news-sentiment"}]
         ELSE \E upsertThrows \in BOOLEAN :
                LET u == articlesToStore[wset.next]
                IN  IF upsertThrows
                    THEN wset' = [wset EXCEPT !.ran = @ \cup {"refresh-news-sentiment"}]
                    ELSE wset' = [wset EXCEPT
                                    !.next = wset.next + 1,
                                    !.table[u] = IF wset.table[u] = NoArticle
                                                 THEN wset.feed[u] ELSE wset.table[u],
                                    !.writes["refresh-news-sentiment"] =
                                       @ \cup {RowKey("NewsArticle", wset.symbol \o " " \o u)}]
  /\ UNCHANGED coreVars
  /\ LibUnchangedExcept("wset")

\* cleanupOldNewsFunction: deleteMany of the articles older than the cutoff;
\* a run whose deleteMany throws deletes nothing
JobCleanupOldNews ==
  /\ "cleanup-old-news" \notin wset.ran
  /\ \E dbFail \in BOOLEAN :
     LET cutoffDate == setDateBack(wset.now, RetentionDays, wset.zone)
         remaining == IF dbFail THEN wset.table
                      ELSE deleteManyBefore(wset.table, cutoffDate)
     IN  wset' = [wset EXCEPT
                    !.ran = @ \cup {"cleanup-old-news"},
                    !.table = remaining,
                    !.writes["cleanup-old-news"] =
                       {RowKey("NewsArticle", wset.symbol \o " " \o u) :
                          u \in {v \in FeedUrls : remaining[v] # wset.table[v]}}]
  /\ UNCHANGED coreVars
  /\ LibUnchangedExcept("wset")

WsetNext ==
  \/ JobAnalyzePost
  \/ JobRefreshTrending
  \/ JobRefreshNewsSentiment
  \/ JobStoreArticle
  \/ JobCleanupOldNews

SpecJobs == WsetInit /\ [][WsetNext]_vars

(***************************************************************************)
(* C21: no row is written by two different job types: the sets of rows     *)
(* written by analyze-post, refresh-trending, refresh-news-sentiment and   *)
(* cleanup-old-news are pairwise disjoint.                                 *)
(***************************************************************************)
C21_WriteSetsPairwiseDisjoint ==
  \A j1 \in JobTypes : \A j2 \in JobTypes :
    j1 # j2 => wset.writes[j1] \cap wset.writes[j2] = {}

(***************************************************************************)
(* Two concurrent recomputations of the news sentiment of one ticker: the  *)
(* refresh job and a route request, or two route requests.  Each writer    *)
(* fetches, analyzes, builds its record, then issues one upsert; the       *)
(* steps of the two writers interleave freely.  The upsert of one row is   *)
(* one atomic statement of the database; when the row did not exist as the *)
(* writer started and the other writer created it meanwhile, the upsert    *)
(* can also fail on the unique key.  race.log lists the records written,   *)
(* in order; lastUpdated is the position of the write.                     *)
(***************************************************************************)
MaxRaceArticles == 4

Writers == {1, 2}

\* Replies of the model to the news prompt (raw percentages in halves)
RaceTriples ==
  { [bullishPercent |-> Fin(12), bearishPercent |-> Fin(6), neutralPercent |-> Fin(2)],
    [bullishPercent |-> Fin(4), bearishPercent |-> Fin(10), neutralPercent |-> Fin(6)],
    [bullishPercent |-> Fin(20), bearishPercent |-> Fin(0), neutralPercent |-> Fin(0)] }

RaceAnalyses(n) ==
  {nullResult} \cup
  {analyzeNewsSentiment(n, TRUE,
     [kind |-> "text", text |-> [kind |-> "json", parsed |-> t]]) : t \in RaceTriples}

\* db.newsSentimentCache.upsert keeping the stored articleCount on update
upsertKeepingArticleCount(existing, aiAnalysis, articleCount, at) ==
  IF existing.present
  THEN [SentimentRow(aiAnalysis, articleCount, at) EXCEPT
          !.articleCount = existing.articleCount]
  ELSE SentimentRow(aiAnalysis, articleCount, at)

\* db.newsSentimentCache.upsert({ where, create, update }): create and update
\* list the same nine value fields
upsertNewsSentimentCache(existing, aiAnalysis, articleCount, at) ==
  SentimentRow(aiAnalysis, articleCount, at)

WriterIdle == [pc |-> "start", sawRow |-> FALSE, aiAnalysis |-> nullResult, n |-> 0]

RaceInit ==
  /\ race \in [pc : {"racing"},
               callers : {<<"job", "route">>, <<"route", "route">>},
               row : {NoRow, SentimentRow(nullResult, MIN_ARTICLES, 0)},
               w : {[i \in Writers |-> WriterIdle]},
               log : {<<>>}]
  /\ norm = NormIdle
  /\ score = ScoreIdle
  /\ adapter = AdapterIdle
  /\ AnalyzeIdle
  /\ NewsIdle
  /\ LibIdleExcept("race")

\* getCompanyNews, then analyzeNewsSentiment, of one writer
RaceCompute(i) ==
  /\ race.w[i].pc = "start"
  /\ \E n \in MIN_ARTICLES..MaxRaceArticles : \E aiAnalysis \in RaceAnalyses(n) :
       race' = [race EXCEPT !.w[i] = [pc |-> "computed", sawRow |-> race.row.present,
                                      aiAnalysis |-> aiAnalysis, n |-> n]]
  /\ UNCHANGED coreVars
  /\ LibUnchangedExcept("race")

\* The upsert of one writer
RaceUpsert(i) ==
  /\ race.w[i].pc = "computed"
  /\ \E uniqueKeyError \in {FALSE, ~race.w[i].sawRow /\ race.row.present} :
       IF uniqueKeyError
       THEN race' = [race EXCEPT !.w[i].pc = "failed"]
       ELSE LET written == upsertNewsSentimentCache(race.row, race.w[i].aiAnalysis,
                                                    race.w[i].n, Len(race.log) + 1)
            IN  race' = [race EXCEPT !.w[i].pc = "written",
                                     !.row = written,
                                     !.log = Append(@, [writer |-> i, record |-> written])]
  /\ UNCHANGED coreVars
  /\ LibUnchangedExcept("race")

RaceNext == \E i \in Writers : RaceCompute(i) \/ RaceUpsert(i)

SpecRace == RaceInit /\ [][RaceNext]_vars

\* The record a writer built: every value field of the row comes from it
BuiltBy(i, row) ==
  /\ row.bullishPercent = race.w[i].aiAnalysis.bullishPercent
  /\ row.bearishPercent = race.w[i].aiAnalysis.bearishPercent
  /\ row.neutralPercent = race.w[i].aiAnalysis.neutralPercent
  /\ row.companyNewsScore =
       JSSub(race.w[i].aiAnalysis.bullishPercent, race.w[i].aiAnalysis.bearishPercent)
  /\ row.articleCount = race.w[i].n

(***************************************************************************)
(* C22: when two writers recompute the news sentiment of one ticker        *)
(* concurrently, the stored row is the complete record of the upsert that  *)
(* ran last; no row mixes value fields of two writers.                     *)
(***************************************************************************)
C22_LastUpsertWinsWhole ==
  race.log # <<>> =>
    /\ race.row = race.log[Len(race.log)].record
    /\ BuiltBy(race.log[Len(race.log)].writer, race.row)

C22_Witness ==
  /\ Len(race.log) = 2
  /\ race.log[1].writer # race.log[2].writer
  /\ race.log[1].record.bullishPercent # race.log[2].record.bullishPercent
  /\ race.log[1].record.articleCount # race.log[2].record.articleCount
  /\ race.row = race.log[2].record

(***************************************************************************)
(* parseAnalysisResponse on a reply that holds a JSON object, and on the   *)
(* same reply with one field replaced by a malformed value: a value of the *)
(* wrong type, a number that is not finite, a string outside the allowed   *)
(* values, a blank string.                                                 *)
(***************************************************************************)
FieldNames == {"qualityScore", "insightType", "sector", "summary"}

MalformedValues(field) ==
  CASE field = "qualityScore" -> {NotANumber, NaN, PosInf, NegInf}
    [] field = "insightType" ->
         {NotAString, StrVal(<<>>), StrVal(<<"b","o","g","u","s">>)}
    [] field = "sector" ->
         {NotAString, StrVal(<<" ", " ">>), StrVal(<<"u","n","k","n","o","w","n">>)}
    [] field = "summary" -> {NotAString, StrVal(<<>>), StrVal(<<" ", " ">>)}

JsonText(parsed) == [kind |-> "json", parsed |-> parsed]

FieldAbsent(field, analysis) ==
  IF field = "qualityScore" THEN analysis[field] = Absent ELSE analysis[field] = NullStr

ParseInit ==
  /\ \E field \in FieldNames :
       parse \in [pc : {"reply"}, parsed : ParsedReplies, field : {field},
                  malformed : MalformedValues(field),
                  base : {getNullAnalysis}, variant : {getNullAnalysis}]
  /\ norm = NormIdle
  /\ score = ScoreIdle
  /\ adapter = AdapterIdle
  /\ AnalyzeIdle
  /\ NewsIdle
  /\ LibIdleExcept("parse")

\* parseAnalysisResponse of the reply and of the reply with the one field
\* replaced
ParseReplyAndVariant ==
  /\ parse.pc = "reply"
  /\ parse' = [parse EXCEPT
                 !.pc = "parsed",
                 !.base = parseAnalysisResponse(JsonText(parse.parsed)),
                 !.variant = parseAnalysisResponse(
                               JsonText([parse.parsed EXCEPT ![parse.field] = parse.malformed]))]
  /\ UNCHANGED coreVars
  /\ LibUnchangedExcept("parse")

ParseNext == ParseReplyAndVariant

SpecParse == ParseInit /\ [][ParseNext]_vars

\* The other three outputs do not change with the replaced field
ParseFieldsIndependent ==
  parse.pc = "parsed" =>
    \A f \in FieldNames \ {parse.field} : parse.variant[f] = parse.base[f]

(***************************************************************************)
(* C23: replacing one field of a parsable reply by a malformed value makes *)
(* only that output of parseAnalysisResponse absent and leaves the other   *)
(* three outputs unchanged.                                                *)
(***************************************************************************)
C23_MalformedFieldNullsOnlyItself ==
  parse.pc = "parsed" =>
    /\ FieldAbsent(parse.field, parse.variant)
    /\ \A f \in FieldNames \ {parse.field} : parse.variant[f] = parse.base[f]

(***************************************************************************)
(* C24: GET /api/trending answers from the singleton row without           *)
(* recomputing when the row it read exists and is less than 10 minutes old *)
(* by the handler's clock; otherwise (no row read, or one 10 minutes old   *)
(* or more) it recomputes, upserts the singleton row with its list and     *)
(* answers with exactly the data and updatedAt then stored; a successful   *)
(* response never carries an updatedAt 10 minutes old or more.             *)
(***************************************************************************)
C24_Step ==
  /\ (trend.route.pc = "findUnique" /\ trend'.route # trend.route) =>
       /\ trend'.row = trend.row
       /\ trend'.route.pc = "check" => trend'.route.cached = trend.row
       /\ trend'.route.pc # "check" => trend'.route.status = 500
  /\ (trend.route.pc = "check" /\ trend'.route # trend.route) =>
       LET rowRead == trend.route.cached
           fresh == rowRead.present /\ trend'.route.at - rowRead.updatedAt < 10 * 60 * 1000
       IN  /\ trend'.route.at = trend.now
           /\ trend'.route.cached = rowRead
           /\ trend'.row = trend.row
           /\ ~trend'.route.computed
           /\ fresh => /\ trend'.route.pc = "done"
                       /\ trend'.route.status = 200
                       /\ trend'.route.trending = rowRead.data
                       /\ trend'.route.updatedAt = rowRead.updatedAt
           /\ ~fresh => trend'.route.pc = "groupBy"
  /\ (trend.route.pc = "groupBy" /\ trend'.route.pc = "upsert") =>
       /\ trend'.route.computed
       /\ \E dbOrder \in DbOrders :
            trend'.route.list = calculateTrending(trend.posts, trend.route.at, dbOrder)
       /\ trend'.row = trend.row
  /\ (trend.route.pc = "upsert" /\ trend'.route.pc = "done"
        /\ trend'.route.status = 200) =>
       /\ trend'.row.present
       /\ trend'.row.data = trend.route.list
       /\ trend'.row.updatedAt = trend.now
       /\ trend'.route.trending = trend'.row.data
       /\ trend'.route.updatedAt = trend'.row.updatedAt
  /\ (trend.route.pc # "done" /\ trend'.route.pc = "done"
        /\ trend'.route.status = 200) =>
       /\ trend.route.pc \in {"check", "upsert"}
       /\ trend'.route.computed <=> trend.route.pc = "upsert"
       /\ trend'.route.at - trend'.route.updatedAt < 10 * 60 * 1000
       /\ trend.now - trend'.route.updatedAt < 10 * 60 * 1000

C24_FreshCacheElseRecompute == [][C24_Step]_vars

C24_Witness ==
  /\ trend.route.pc = "done"
  /\ trend.route.status = 200
  /\ trend.route.computed
  /\ trend.route.cached.present
  /\ trend.route.at - trend.route.cached.updatedAt = 10 * 60 * 1000
  /\ trend.route.trending # <<>>
  /\ trend.route.updatedAt > trend.route.at
  /\ trend.row.data = trend.route.trending

(***************************************************************************)
(* C25: a run of analyze-post whose provider call fails (network failure,  *)
(* rate limit, API error) does not end as Succeeded; it is retried.        *)
(***************************************************************************)
C25_Step ==
  (inv.state = "Running" /\ inv'.state = "Succeeded") =>
    ~(job'.input.apiKey /\ job'.input.upstream.kind = "error")

C25_ProviderFailureNotSucceeded == [][C25_Step]_vars

(***************************************************************************)
(* C26: whenever the window holds at least one post, the bullish, bearish  *)
(* and neutral percentages of the community breakdown sum to exactly 100.  *)
(***************************************************************************)
C26_BreakdownSumsTo100 ==
  (comm.pc = "responded" /\ comm.status = 200 /\ comm.total > 0) =>
    comm.breakdown.bullish.percentage + comm.breakdown.bearish.percentage
      + comm.breakdown.neutral.percentage = 100

(***************************************************************************)
(* C27: in a refresh run, a ticker recorded in the result list with        *)
(* success = false has no NewsSentimentCache row written by that run: the  *)
(* iteration that records the failure has not upserted the ticker's row.   *)
(***************************************************************************)
C27_FailedTickerRowUntouched ==
  \A i \in 1..Len(run.results) :
    ~run.results[i].success => ~run.trace[i].wrote

\* Some analysis field of the post is stored (not absent)
HasStoredAnalysis(p) ==
  \/ p.qualityScore # Absent
  \/ p.insightType # NullStr
  \/ p.sector # NullStr
  \/ p.summary # NullStr

(***************************************************************************)
(* C28: once a post has analysis fields stored, a later analyze run for it *)
(* (a duplicate delivery, a retry, or the analyze route) whose provider    *)
(* call fails does not replace the stored values with absent ones.         *)
(***************************************************************************)
C28_Step ==
  (/\ HasStoredAnalysis(post)
   /\ job'.writes = job.writes + 1
   /\ job'.input.apiKey
   /\ job'.input.upstream.kind = "error") => post' = post

C28_FailedRerunKeepsStoredAnalysis == [][C28_Step]_vars

(***************************************************************************)
(* POST /api/posts.  The sources hold three handlers of it: the one of     *)
(* app/api/posts/route.ts, which sends a post/created event, one that only *)
(* stores the post, and one that fires a request at the analyze route      *)
(* without awaiting it.  create holds one request (the handler serving it, *)
(* whether the caller is signed in, the content and the sentiment of the   *)
(* body), the awaited call the handler has reached, and what it has done   *)
(* so far: the user row upserted, the post row stored, the post/created    *)
(* events sent, the analyze requests fired, and the status of the response *)
(* (0: none yet).  Every throw lands in the catch, which answers 500.      *)
(***************************************************************************)
MaxContentExtra == 1

\* content.length > 500
PostContentMaxLen == 500

\* ['BULLISH', 'BEARISH', 'NEUTRAL']
PostSentiments == {"BULLISH", "BEARISH", "NEUTRAL"}

\* Request bodies: content missing or not a string, or a string given by its
\* length and whether it is blank; sentiment missing, unknown or valid
PostContents ==
  {[isString |-> FALSE, len |-> 0, blank |-> FALSE]}
    \cup {[isString |-> TRUE, len |-> n, blank |-> b] :
            n \in {0, 1, PostContentMaxLen} \cup
                  (PostContentMaxLen + 1)..(PostContentMaxLen + MaxContentExtra),
            b \in BOOLEAN}

PostBodies ==
  {body \in [content : PostContents, sentiment : PostSentiments \cup {"", "MIXED"}] :
     body.content.len = 0 => body.content.blank}

PostHandlers == {"sendEvent", "storeOnly", "fireAnalyze"}

CreateInit ==
  /\ create \in [pc : {"request"}, handler : PostHandlers, signedIn : BOOLEAN,
                 body : PostBodies, status : {0}, userRow : {FALSE},
                 stored : {FALSE}, postId : {""}, sent : {<<>>}, fired : {<<>>}]
  /\ norm = NormIdle
  /\ score = ScoreIdle
  /\ adapter = AdapterIdle
  /\ AnalyzeIdle
  /\ NewsIdle
  /\ LibIdleExcept("create")

Respond(c, status) == [c EXCEPT !.pc = "responded", !.status = status]

\* const { userId } = await auth(); if (!userId) return 401
CreatePostAuth ==
  /\ create.pc = "request"
  /\ \E fail \in BOOLEAN :
       IF fail THEN create' = Respond(create, 500)
       ELSE IF ~create.signedIn THEN create' = Respond(create, 401)
       ELSE create' = [create EXCEPT
                         !.pc = IF create.handler = "storeOnly" THEN "create" ELSE "user"]
  /\ UNCHANGED coreVars
  /\ LibUnchangedExcept("create")

\* clerkClient(), getUser(userId), the username, then await db.user.upsert(...)
CreatePostUpsertUser ==
  /\ create.pc = "user"
  /\ \E fail \in BOOLEAN :
       IF fail THEN create' = Respond(create, 500)
       ELSE create' = [create EXCEPT !.pc = "create", !.userRow = TRUE]
  /\ UNCHANGED coreVars
  /\ LibUnchangedExcept("create")

\* The four validations of the body: the status they answer, 0 when all pass
ValidatePostBody(body) ==
  IF ~body.content.isString \/ body.content.len = 0 THEN 400
  ELSE IF body.content.blank THEN 400
  ELSE IF body.content.len > PostContentMaxLen THEN 400
  ELSE IF body.sentiment \notin PostSentiments THEN 400
  ELSE 0

\* await req.json(), the validations and await db.post.create(...); c is the
\* request and fail the call that throws
StorePost(c, fail) ==
  IF fail = "body" THEN Respond(c, 500)
  ELSE IF ValidatePostBody(c.body) # 0 THEN Respond(c, ValidatePostBody(c.body))
  ELSE IF fail = "create" THEN Respond(c, 500)
  ELSE [c EXCEPT !.stored = TRUE, !.postId = "p1"]

\* route.ts up to the end of await db.post.create(...): the handler goes on
\* to inngest.send
CreatePost ==
  /\ create.pc = "create" /\ create.handler = "sendEvent"
  /\ \E fail \in {"none", "body", "create"} :
       LET c == StorePost(create, fail)
       IN  create' = IF c.stored THEN [c EXCEPT !.pc = "send"] ELSE c
  /\ UNCHANGED coreVars
  /\ LibUnchangedExcept("create")

\* await inngest.send({ name: "post/created", data: { postId, ... } }) and the
\* response
CreatePostSend ==
  /\ create.pc = "send"
  /\ \E fail \in BOOLEAN :
       IF fail THEN create' = Respond(create, 500)
       ELSE create' = Respond([create EXCEPT !.sent = <<create.postId>>], 201)
  /\ UNCHANGED coreVars
  /\ LibUnchangedExcept("create")

\* The handler that stores the post and answers 201: no event, no user row
CreatePostStoreOnly ==
  /\ create.pc = "create" /\ create.handler = "storeOnly"
  /\ \E fail \in {"none", "body", "create"} :
       LET c == StorePost(create, fail)
       IN  create' = IF c.stored THEN Respond(c, 201) ELSE c
  /\ UNCHANGED coreVars
  /\ LibUnchangedExcept("create")

\* The handler that stores the post, calls triggerAsyncAnalysis (a fetch of
\* /api/posts/<id>/analyze that is not awaited and whose errors are caught)
\* and answers 201: no event
CreatePostFireAnalyze ==
  /\ create.pc = "create" /\ create.handler = "fireAnalyze"
  /\ \E fail \in {"none", "body", "create"} :
       LET c == StorePost(create, fail)
       IN  create' = IF c.stored THEN Respond([c EXCEPT !.fired = <<c.postId>>], 201)
                     ELSE c
  /\ UNCHANGED coreVars
  /\ LibUnchangedExcept("create")

CreateNext ==
  \/ CreatePostAuth
  \/ CreatePostUpsertUser
  \/ CreatePost
  \/ CreatePostSend
  \/ CreatePostStoreOnly
  \/ CreatePostFireAnalyze

SpecCreate == CreateInit /\ [][CreateNext]_vars

(***************************************************************************)
(* C29: whenever POST /api/posts stores a post row, a post/created event   *)
(* with that post's id was sent and the response is 201; no request ends   *)
(* with a stored post and no event, or with an error response for a        *)
(* stored post.                                                            *)
(***************************************************************************)
C29_StoredImpliesEventAnd201 ==
  (create.pc = "responded" /\ create.stored) =>
    /\ create.sent = <<create.postId>>
    /\ create.status = 201

(***************************************************************************)
(* GET /api/posts/[id]/comments, followed from the first page along        *)
(* nextCursor.  A comment is its creation time (pairwise distinct); the    *)
(* cursor is a creation time, NoCursor when there is none.  page.seen      *)
(* lists the comments returned so far, page by page.  POST                 *)
(* /api/posts/[id]/comments adds comments to the post while the traversal  *)
(* goes on; page.posted counts those requests and page.first is the set of *)
(* comments the post had as the traversal started.                         *)
(***************************************************************************)
MaxCommentTimes == 5

MaxLateComments == 1

MaxLimitParam == 3

\* limitParam ? Math.min(parseInt(limitParam, 10), 50) : 10
DefaultLimit == 10

LimitCap == 50

NoCursor == 0

NoLimitParam == 0 - 1

Max(S) == CHOOSE x \in S : \A y \in S : y <= x

\* findMany({ orderBy: { createdAt: 'desc' }, take: n })
RECURSIVE NewestFirst(_, _)
NewestFirst(S, n) ==
  IF S = {} \/ n = 0 THEN <<>>
  ELSE <<Max(S)>> \o NewestFirst(S \ {Max(S)}, n - 1)

ParseLimit(limitParam) ==
  IF limitParam = NoLimitParam THEN DefaultLimit ELSE Min(limitParam, LimitCap)

\* One request: the comments of the response and its nextCursor
GetComments(all, cursor, limit) ==
  LET matching == IF cursor # NoCursor THEN {c \in all : c < cursor} ELSE all
      fetched == NewestFirst(matching, limit + 1)
  IN  IF Len(fetched) > limit
      THEN [comments |-> SubSeq(fetched, 1, limit), nextCursor |-> fetched[limit + 1]]
      ELSE [comments |-> fetched, nextCursor |-> NoCursor]

PageInit ==
  /\ \E comments \in SUBSET (1..MaxCommentTimes) :
       page \in [pc : {"paging"}, all : {comments}, first : {comments},
                 limitParam : {NoLimitParam} \cup 0..MaxLimitParam,
                 cursor : {NoCursor}, seen : {<<>>}, pages : {0}, status : {0},
                 posted : {0}]
  /\ norm = NormIdle
  /\ score = ScoreIdle
  /\ adapter = AdapterIdle
  /\ AnalyzeIdle
  /\ NewsIdle
  /\ LibIdleExcept("page")

\* One request of the traversal, with the cursor of the previous response
FetchCommentsPage ==
  /\ page.pc = "paging"
  /\ \E dbFail \in BOOLEAN :
       LET limit == ParseLimit(page.limitParam)
       IN  IF limit < 1
           THEN page' = [page EXCEPT !.pc = "rejected", !.status = 400]
           ELSE IF dbFail
           THEN page' = [page EXCEPT !.pc = "failed", !.status = 500]
           ELSE LET r == GetComments(page.all, page.cursor, limit)
                IN  page' = [page EXCEPT
                               !.pc = IF r.nextCursor = NoCursor THEN "end" ELSE "paging",
                               !.status = 200,
                               !.cursor = r.nextCursor,
                               !.pages = page.pages + 1,
                               !.seen = page.seen \o r.comments]
  /\ UNCHANGED coreVars
  /\ LibUnchangedExcept("page")

\* POST /api/posts/[id]/comments between two requests of the traversal: the
\* comment is created now, later than every comment of the post, unless the
\* handler answers 401, 400, 404 or 500 before db.comment.create
CreateComment ==
  /\ page.pc = "paging"
  /\ page.posted < MaxLateComments
  /\ \E created \in BOOLEAN :
       \E createdAt \in 1..(MaxCommentTimes + MaxLateComments) :
         /\ \A c \in page.all : c < createdAt
         /\ page' = [page EXCEPT
                        !.posted = page.posted + 1,
                        !.all = IF created THEN page.all \cup {createdAt} ELSE page.all]
  /\ UNCHANGED coreVars
  /\ LibUnchangedExcept("page")

PageNext ==
  \/ FetchCommentsPage
  \/ CreateComment

SpecPage == PageInit /\ [][PageNext]_vars

(***************************************************************************)
(* C30: following nextCursor from the first page until it is null returns  *)
(* every comment of the post exactly once, none skipped, none repeated,    *)
(* when no comment was added to the post meanwhile.                        *)
(***************************************************************************)
C30_EveryCommentExactlyOnce ==
  (page.pc = "end" /\ page.all = page.first) =>
    /\ {page.seen[i] : i \in 1..Len(page.seen)} = page.all
    /\ Len(page.seen) = Cardinality(page.all)

====
